---- MODULE Spec2Model ----
(***************************************************************************)
(* A model of the YouTube audio extractor's resolution-and-delivery        *)
(* pipeline.                                                               *)
(*                                                                         *)
(* Part I  (Spec): the strategy-chain resolvers                            *)
(*   - ApifyYouTubeProxy.extractYouTubeVideo   (src/test.ts, "apify")      *)
(*   - ApifyYouTubeProxy.extractYouTubeVideo   (src/main.js, "actor")      *)
(*   - ApifyYouTubeProxy.extractYouTubeVideo   (src/unnamed/part_006,      *)
(*                                              "audio")                   *)
(*   - YouTubeParser.extractVideoInfo          (src/youtube-parser.ts,     *)
(*                                              "parser")                  *)
(* Part II (SpecPipeline): the cache-gated yt-dlp pipeline with proxy      *)
(* groups, ApifyYouTubeProxy of src/unnamed/part_003 lines 50-657 ("plan") *)
(*                                                                         *)
(* Each step of the model is the code that runs between two awaits of the  *)
(* single JavaScript thread that resolves one identifier.                  *)
(***************************************************************************)
EXTENDS Integers, Sequences, FiniteSets, TLC

\* Bounds of the model
MaxCalls == 2
MaxProxy == 2
MaxClock == 2

\* BROWSER_PROFILES.length
NumProfiles == 3

\* this.proxyUrl = null (no proxy, direct egress)
NoProxy == 0

VARIABLES
    impl,            \* which resolver implementation this instance is
    r2Client,        \* this.r2Client is set (R2 credentials were configured)
    r2Bucket,        \* a bucket name is available (env / argument)
    uploadToR2,      \* argument of the running call
    calls,           \* calls of the entry point made so far on this instance
    pc,              \* position of the running call
    index,           \* loop index into the method list (1-based)
    outcome,         \* what the method at index settled to
    proxyUrl,        \* this.proxyUrl
    currentProfile,  \* this.currentProfile (index into BROWSER_PROFILES)
    lastError,       \* YouTubeParser: lastError (0 = null, else method index)
    result,          \* value the call returned
    error,           \* error the call threw
    store,           \* the object store: a set of [key, meta] objects
    objectKey,       \* const objectKey of the running download/upload
    now,             \* Date.now()
    \* history of the running call
    invoked,         \* indices of the methods invoked, in order
    pending,         \* methods invoked whose promise has not settled
    failedUnrotated, \* an attempt failed and no rotation has followed yet
    usableAt,        \* index of the first method that returned a usable result
    rotations,       \* rotateIPAndProfile calls completed
    downloads,       \* media downloads issued
    uploads,         \* uploads issued to the object store
    uploadFailed,    \* an upload to the object store failed
    rotation,        \* how the last rotateIPAndProfile of the running call ended
    \* the cache-gated pipeline (part II)
    proxyStrategy,     \* this.proxyStrategy
    minimizeSize,      \* this.minimizeSize
    currentProxyGroup, \* this.currentProxyGroup
    keyIndex,          \* findExistingR2Asset: position in the candidate keys
    tmpFiles,          \* extensions e of the files /tmp/audio_<videoId>.<e>
    fileExt,           \* result.ext of downloadAudioDirect
    \* history
    probed,            \* keys HEAD was sent for in the running call, in order
    cacheError,        \* a HEAD failed with something other than not-found
    hadArtifact,       \* the store held an object of the identifier at the call
    hadPersisted,      \* an earlier call had uploaded the identifier's audio
    groupSwitches,     \* useProxyGroup calls completed in the running call
    \* format selection (part III)
    kind,              \* which selector / parser the input is for
    formats,           \* the format list handed to the selector
    combined,          \* watch page: streamingData.formats, by its first entry
    selected,          \* what the last selection / parse returned
    selectedBefore,    \* what the selection before it returned
    \* identifier parsing (part IV)
    url,               \* the string handed to extractVideoId, as characters
    carried,           \* how that string was put together
    \* single operations (part V)
    input,             \* what the operation named by kind is handed
    output,            \* what it returned or threw
    tmp                \* the files of /tmp: [name, writer]

chainVars == <<impl, r2Client, r2Bucket, uploadToR2, calls, pc, index, outcome,
               proxyUrl, currentProfile, lastError, result, error, store,
               objectKey, now,
               invoked, pending, failedUnrotated, usableAt, rotations,
               downloads, uploads, uploadFailed, rotation>>

pipeVars == <<proxyStrategy, minimizeSize, currentProxyGroup, keyIndex, tmpFiles,
              fileExt, probed, cacheError, hadArtifact, hadPersisted,
              groupSwitches>>

auxVars == <<input, output, tmp>>

fmtVars == <<kind, formats, combined, selected, selectedBefore, url, carried, auxVars>>

vars == <<chainVars, pipeVars, fmtVars>>

Impls == {"apify", "actor", "audio", "parser"}

----------------------------------------------------------------------------
\* The declared strategy lists

ApifyMethods == <<"watch", "embed", "mobile", "ytdlp", "oembed">>

ActorMethods == <<"embed", "watch", "mobile", "oembed">>

AudioMethods == <<"watch", "embed", "mobile", "oembed">>

ParserMethods == <<"embedded", "mobile", "tv", "web", "oembed">>

extractionMethods ==
    CASE impl = "apify" -> ApifyMethods
      [] impl = "actor" -> ActorMethods
      [] impl = "audio" -> AudioMethods
      [] OTHER -> ParserMethods

NumMethods == Len(extractionMethods)

\* What a method's promise can settle to:
\*   "throw" - rejected (request error, request timeout, parse failure)
\*   "audio" - a result with a non-empty audioFormats list
\*   "url"   - a result with a url (videoUrl/audioUrl) and no audio formats
\*   "none"  - a result with neither
ApifyOutcomes(m) ==
    CASE m = "watch" -> {"throw", "audio"}
      [] m = "embed" -> {"throw", "url"}
      [] m = "mobile" -> {"throw", "url"}
      [] m = "ytdlp" -> {"throw", "audio"}
      [] OTHER -> {"throw", "none"}

ActorOutcomes(m) ==
    CASE m = "embed" -> {"throw", "url"}
      [] m = "watch" -> {"throw", "url", "none"}
      [] m = "mobile" -> {"throw", "url"}
      [] OTHER -> {"throw", "none"}

AudioOutcomes(m) ==
    CASE m = "watch" -> {"throw", "audio", "url", "none"}
      [] m = "embed" -> {"throw", "url"}
      [] m = "mobile" -> {"throw", "url"}
      [] OTHER -> {"throw", "none"}

ParserOutcomes(m) ==
    CASE m = "oembed" -> {"throw", "none"}
      [] OTHER -> {"throw", "url", "none"}

MethodOutcomes(m) ==
    CASE impl = "apify" -> ApifyOutcomes(m)
      [] impl = "actor" -> ActorOutcomes(m)
      [] impl = "audio" -> AudioOutcomes(m)
      [] OTHER -> ParserOutcomes(m)

\* a test that accepts whatever a method returns
UsableWheneverReturned(o) == o # "throw"

\* The test the loop applies to a settled result
Usable(o) ==
    CASE impl \in {"apify", "audio"} -> o \in {"audio", "url"}
      [] OTHER -> o = "url"

\* if (uploadToR2 && result.audioFormats?.length > 0 && this.r2Client)
WantsUpload(o) ==
    impl \in {"apify", "audio"} /\ uploadToR2 /\ o = "audio" /\ r2Client

----------------------------------------------------------------------------
\* The object store (S3-compatible): PUT overwrites the object at the key

NoKey == [prefix |-> "none", stamp |-> 0, ext |-> "none"]

\* test.ts: const objectKey = `temp-audio/${videoId}.mp4`
ApifyObjectKey == [prefix |-> "temp-audio", stamp |-> 0, ext |-> "mp4"]

\* part_006: fileExtension from the chosen format's mimeType
MimeExts == {"mp4", "webm", "audio"}

\* part_006: const objectKey = `youtube-audio/${videoId}/${Date.now()}.${fileExtension}`
AudioObjectKey(t, e) == [prefix |-> "youtube-audio", stamp |-> t, ext |-> e]

PutObject(s, k, m) == {o \in s : o.key # k} \cup {[key |-> k, meta |-> m]}

KeysOf(s) == {o.key : o \in s}

----------------------------------------------------------------------------
\* The for..of loop over the method list

\* the next entry of extractionMethods.entries()
NextIndexSkipping(i) == i + 2

NextIndex(i) == i + 1

\* the loop has an entry i
LoopHasEntryButLast(i) == i < NumMethods

LoopHasEntry(i) == i <= NumMethods

\* what the error thrown after the loop tells of the attempts: test.ts, main.js
\* and part_006 throw a fixed message, YouTubeParser appends the message of the
\* last error it caught
AttemptsCarried == IF impl = "parser" /\ lastError # 0 THEN <<lastError>> ELSE <<>>

\* The head of the loop body for entry i (the method is called and awaited),
\* or the throw that follows the loop when the list is used up.
StartMethod(i, inv, pend) ==
    /\ index' = i
    /\ IF LoopHasEntry(i)
         THEN /\ invoked' = Append(inv, i)
              /\ pending' = pend \cup {i}
              /\ pc' = "awaitMethod"
              /\ error' = "none"
         ELSE /\ invoked' = inv
              /\ pending' = pend
              /\ pc' = "threw"
              /\ error' = "AllExtractionMethodsFailed"

\* extractYouTubeVideo(videoUrl, uploadToR2) / extractVideoInfo(videoId)
Call(u, valid) ==
    /\ UNCHANGED fmtVars
    /\ rotation' = "none"
    /\ impl \in Impls
    /\ UNCHANGED pipeVars
    /\ pc \in {"idle", "returned", "threw"}
    /\ calls < MaxCalls
    /\ impl \in {"actor", "parser"} => ~u
    /\ impl = "parser" => valid
    /\ calls' = calls + 1
    /\ uploadToR2' = u
    /\ outcome' = "none"
    /\ result' = "none"
    /\ lastError' = 0
    /\ objectKey' = NoKey
    /\ failedUnrotated' = FALSE
    /\ usableAt' = 0
    /\ rotations' = 0
    /\ downloads' = 0
    /\ uploads' = 0
    /\ uploadFailed' = FALSE
    /\ IF valid
         THEN StartMethod(1, <<>>, {})
         ELSE /\ pc' = "threw"
              /\ error' = "InvalidYouTubeURL"
              /\ index' = 0
              /\ invoked' = <<>>
              /\ pending' = {}
    /\ UNCHANGED <<impl, r2Client, r2Bucket, proxyUrl, currentProfile, store, now>>

\* const result = await method() settles, and the loop body runs to its next await
MethodSettles(o) ==
    /\ UNCHANGED fmtVars
    /\ UNCHANGED rotation
    /\ impl \in Impls
    /\ UNCHANGED pipeVars
    /\ pc = "awaitMethod"
    /\ o \in MethodOutcomes(extractionMethods[index])
    /\ outcome' = o
    /\ UNCHANGED <<impl, r2Client, r2Bucket, uploadToR2, calls, proxyUrl,
                   currentProfile, store, objectKey, now, rotations, uploads,
                   uploadFailed>>
    /\ IF Usable(o)
         THEN /\ usableAt' = IF usableAt = 0 THEN index ELSE usableAt
              /\ UNCHANGED <<lastError, index, invoked, error>>
              /\ pending' = pending \ {index}
              /\ IF WantsUpload(o)
                   THEN IF impl = "apify" /\ ~r2Bucket
                          \* 'CLOUDFLARE_R2_BUCKET environment variable not set'
                          THEN /\ pc' = "rotate"
                               /\ failedUnrotated' = TRUE
                               /\ UNCHANGED <<result, downloads>>
                          ELSE /\ pc' = "download"
                               /\ downloads' = downloads + 1
                               /\ UNCHANGED <<result, failedUnrotated>>
                   ELSE /\ pc' = "returned"
                        /\ result' = "raw"
                        /\ UNCHANGED <<downloads, failedUnrotated>>
         ELSE /\ failedUnrotated' = TRUE
              /\ UNCHANGED <<usableAt, result, downloads>>
              /\ IF o = "throw"
                   THEN /\ pending' = pending \ {index}
                        /\ lastError' = IF impl = "parser" THEN index ELSE lastError
                        /\ pc' = IF impl = "parser" THEN "delay" ELSE "rotate"
                        /\ UNCHANGED <<index, invoked, error>>
                   ELSE \* an unusable result: the loop goes on to the next entry
                        /\ lastError' = lastError
                        /\ StartMethod(NextIndex(index), invoked, pending \ {index})

\* downloadAndUploadAudio: const audioResponse = await this.makeRequest(url) settles
DownloadSettles(ok, e) ==
    /\ UNCHANGED fmtVars
    /\ UNCHANGED rotation
    /\ impl \in Impls
    /\ UNCHANGED pipeVars
    /\ pc = "download"
    /\ IF ok
         THEN /\ pc' = "upload"
              /\ uploads' = uploads + 1
              /\ objectKey' = IF impl = "apify" THEN ApifyObjectKey
                                                ELSE AudioObjectKey(now, e)
              /\ UNCHANGED failedUnrotated
         ELSE \* 'Audio processing failed', caught by the loop's catch
              /\ e = "mp4"
              /\ pc' = "rotate"
              /\ failedUnrotated' = TRUE
              /\ UNCHANGED <<uploads, objectKey>>
    /\ UNCHANGED <<impl, r2Client, r2Bucket, uploadToR2, calls, index, outcome,
                   proxyUrl, currentProfile, lastError, result, error, store,
                   now, invoked, pending, usableAt, rotations, downloads,
                   uploadFailed>>

\* downloadAndUploadAudio: const uploadResult = await upload.done() settles
UploadSettles(ok) ==
    /\ UNCHANGED fmtVars
    /\ UNCHANGED rotation
    /\ impl \in Impls
    /\ UNCHANGED pipeVars
    /\ pc = "upload"
    /\ ok => r2Bucket
    /\ IF ok
         THEN /\ store' = PutObject(store, objectKey, [extractedAt |-> now])
              /\ pc' = "returned"
              /\ result' = "r2"
              /\ UNCHANGED <<uploadFailed, failedUnrotated>>
         ELSE \* 'Audio processing failed', caught by the loop's catch
              /\ pc' = "rotate"
              /\ uploadFailed' = TRUE
              /\ failedUnrotated' = TRUE
              /\ UNCHANGED <<store, result>>
    /\ UNCHANGED <<impl, r2Client, r2Bucket, uploadToR2, calls, index, outcome,
                   proxyUrl, currentProfile, lastError, error, objectKey, now,
                   invoked, pending, usableAt, rotations, downloads, uploads>>

\* what the proxy provider handed out: no URL (direct egress from now on), the
\* URL already in use, or another one
RotationOutcome(p) ==
    IF p = NoProxy THEN "direct" ELSE IF p = proxyUrl THEN "same" ELSE "new"

\* test.ts wraps the proxy calls of rotateIPAndProfile in try/catch; main.js and
\* part_006 do not
RotateCaughtNowhere == FALSE

RotateCaught == impl = "apify"

\* catch (error) { await this.rotateIPAndProfile() } and the loop's next entry.
\* r: "ok" (a proxy URL, or none, was handed out), "fail" (the proxy provider threw)
rotateIPAndProfile(r, p, f) ==
    /\ UNCHANGED fmtVars
    /\ impl \in Impls
    /\ UNCHANGED pipeVars
    /\ pc = "rotate"
    /\ rotations' = rotations + 1
    /\ UNCHANGED <<impl, r2Client, r2Bucket, uploadToR2, calls, outcome, lastError,
                   result, store, objectKey, now, usableAt, downloads, uploads,
                   uploadFailed>>
    /\ IF r = "ok"
         THEN /\ proxyUrl' = p
              /\ currentProfile' = f
              /\ rotation' = RotationOutcome(p)
              /\ failedUnrotated' = FALSE
              /\ StartMethod(NextIndex(index), invoked, pending)
         ELSE /\ p = proxyUrl /\ f = currentProfile
              /\ UNCHANGED <<proxyUrl, currentProfile>>
              /\ rotation' = "threw"
              /\ failedUnrotated' = FALSE
              /\ IF RotateCaught
                   \* test.ts: 'Failed to rotate proxy' is logged, the loop goes on
                   THEN StartMethod(NextIndex(index), invoked, pending)
                   \* main.js, part_006: nothing catches it inside the catch block
                   ELSE /\ pc' = "threw"
                        /\ error' = "RotateFailed"
                        /\ UNCHANGED <<index, invoked, pending>>

\* YouTubeParser: catch { lastError = error; await setTimeout(1000); continue }
ParserDelay ==
    /\ UNCHANGED fmtVars
    /\ UNCHANGED rotation
    /\ impl \in Impls
    /\ UNCHANGED pipeVars
    /\ pc = "delay"
    /\ StartMethod(NextIndex(index), invoked, pending)
    /\ UNCHANGED <<impl, r2Client, r2Bucket, uploadToR2, calls, outcome, proxyUrl,
                   currentProfile, lastError, result, store, objectKey, now,
                   failedUnrotated, usableAt, rotations, downloads, uploads,
                   uploadFailed>>

\* time passes while the call is suspended
Tick ==
    /\ UNCHANGED fmtVars
    /\ impl \in Impls
    /\ UNCHANGED rotation
    /\ now < MaxClock
    /\ pc \notin {"idle"}
    /\ now' = now + 1
    /\ UNCHANGED pipeVars
    /\ UNCHANGED <<impl, r2Client, r2Bucket, uploadToR2, calls, pc, index, outcome,
                   proxyUrl, currentProfile, lastError, result, error, store,
                   objectKey, invoked, pending, failedUnrotated, usableAt,
                   rotations, downloads, uploads, uploadFailed>>

\* a selector's return value: out is empty for null / undefined / nothing usable
Unselected == [done |-> FALSE, out |-> <<>>]

Returned(out) == [done |-> TRUE, out |-> out]

\* nothing was handed to an operation, nothing came back
Nothing == [done |-> FALSE]

NoAux ==
    /\ input = Nothing
    /\ output = Nothing
    /\ tmp = {}

\* no string is being parsed
NoUrl == [scheme |-> <<>>, shape |-> "none", token |-> <<>>, extra |-> <<>>]

\* no format list is being selected from
NoSelection ==
    /\ kind = "none"
    /\ formats = <<>>
    /\ combined = "none"
    /\ selected = Unselected
    /\ selectedBefore = Unselected
    /\ url = <<>>
    /\ carried = NoUrl
    /\ NoAux

\* The instance after its constructor and initialize()
Init ==
    /\ NoSelection
    /\ rotation = "none"
    /\ impl \in Impls
    /\ r2Client \in (IF impl \in {"apify", "audio"} THEN BOOLEAN ELSE {FALSE})
    /\ r2Bucket \in (IF impl \in {"apify", "audio"} THEN BOOLEAN ELSE {FALSE})
    /\ proxyUrl \in (IF impl = "parser" THEN {NoProxy} ELSE 0..MaxProxy)
    /\ currentProfile \in (IF impl = "parser" THEN {1} ELSE 1..NumProfiles)
    /\ uploadToR2 = FALSE
    /\ calls = 0
    /\ pc = "idle"
    /\ index = 0
    /\ outcome = "none"
    /\ lastError = 0
    /\ result = "none"
    /\ error = "none"
    /\ store = {}
    /\ objectKey = NoKey
    /\ now = 1
    /\ invoked = <<>>
    /\ pending = {}
    /\ failedUnrotated = FALSE
    /\ usableAt = 0
    /\ rotations = 0
    /\ downloads = 0
    /\ uploads = 0
    /\ uploadFailed = FALSE
    /\ proxyStrategy = "none"
    /\ minimizeSize = FALSE
    /\ currentProxyGroup = "none"
    /\ keyIndex = 0
    /\ tmpFiles = {}
    /\ fileExt = "none"
    /\ probed = <<>>
    /\ cacheError = FALSE
    /\ hadArtifact = FALSE
    /\ hadPersisted = FALSE
    /\ groupSwitches = 0

Next ==
    \/ \E u \in BOOLEAN, valid \in BOOLEAN : Call(u, valid)
    \/ \E o \in {"throw", "audio", "url", "none"} : MethodSettles(o)
    \/ \E ok \in BOOLEAN, e \in MimeExts : DownloadSettles(ok, e)
    \/ \E ok \in BOOLEAN : UploadSettles(ok)
    \/ \E r \in {"ok", "fail"}, p \in 0..MaxProxy, f \in 1..NumProfiles :
           rotateIPAndProfile(r, p, f)
    \/ ParserDelay
    \/ Tick

Spec == Init /\ [][Next]_vars


----------------------------------------------------------------------------
\* Properties of the strategy chain (specification Spec)

\* C1: the strategies of one call are invoked strictly in the declared order,
\* one at a time: the invoked indices are 1, 2, 3, ... without gap or repeat,
\* and at most one strategy, the last invoked one, is pending.
C1_StrictOrderOneAtATime ==
    /\ Len(invoked) <= NumMethods
    /\ \A k \in 1..Len(invoked) : invoked[k] = k
    /\ Cardinality(pending) <= 1
    /\ pending \subseteq {Len(invoked)}

\* C1 witness: the last strategy of the five of test.ts is pending, the four
\* before it were invoked and have settled
C1_Witness ==
    /\ impl = "apify"
    /\ Len(invoked) = 5
    /\ pending = {5}

\* C3 as stated: when a strategy is started, every failure before it (throw,
\* timeout, unusable result) has been followed by a rotation.
C3_RotationAfterEveryFailure == pc = "awaitMethod" => ~failedUnrotated

\* C3: a strategy is started right after an unusable result, no rotation between
C3_Witness ==
    /\ pc = "awaitMethod"
    /\ failedUnrotated
    /\ outcome = "none"
    /\ rotations = 0

C5_FirstUsableResultReturned ==
    usableAt # 0 => (index = usableAt /\ pc \in {"download", "upload", "returned"})

\* C5: a later strategy is pending although an earlier one gave a usable result
C5_Witness ==
    /\ usableAt # 0
    /\ pc = "awaitMethod"
    /\ index > usableAt
    /\ rotations > 0

\* C6 as stated: after a failed upload nothing more is attempted (no strategy,
\* no download, no upload) and the call does not return a result.
C6_UploadFailureEndsPipeline ==
    uploadFailed => pc \notin {"awaitMethod", "download", "upload", "returned"}

\* C6: a second upload is in flight after the first one failed
C6_Witness ==
    /\ uploadFailed
    /\ pc = "upload"
    /\ uploads = 2

\* C7 as stated: a call asked to persist returns a result only after the upload
\* completed.
C7_SuccessOnlyAfterUpload ==
    (pc = "returned" /\ uploadToR2) => result = "r2"

\* C7: a call asked to persist returned a result without any upload
C7_Witness ==
    /\ pc = "returned"
    /\ uploadToR2
    /\ result = "raw"
    /\ uploads = 0

\* C8 as stated: however often the identifier is materialized, the store holds
\* exactly one object for it.
C8_OneObjectPerIdentifier == Cardinality(store) <= 1

\* C8: two calls uploaded the identifier's audio and left two objects
C8_Witness ==
    /\ calls = 2
    /\ pc = "returned"
    /\ result = "r2"
    /\ Cardinality(store) = 2

\* C12 as stated: a call of a valid URL throws only when the whole chain is
\* used up: every declared strategy was invoked and the error is the
\* all-methods-failed error.
C12_OnlyExhaustionEscapes ==
    (pc = "threw" /\ error # "InvalidYouTubeURL")
        => (error = "AllExtractionMethodsFailed" /\ Len(invoked) = NumMethods)

\* C12: main.js threw out of the catch block of the first strategies while
\* strategies were left untried
C12_Witness ==
    /\ impl = "actor"
    /\ pc = "threw"
    /\ error = "RotateFailed"
    /\ Len(invoked) < NumMethods

\* -------------------------------------------------------------------------
\* Part II: the cache-gated yt-dlp pipeline with proxy groups
\* -------------------------------------------------------------------------

ProxyStrategies == {"datacenter-first", "residential-first", "datacenter-only",
                    "residential-only"}

\* a plan that falls back to the other group under every strategy
ProxyPlanWithFallback(st) ==
    IF st \in {"residential-only", "residential-first"}
      THEN <<"RESIDENTIAL", "DATACENTER">>
      ELSE <<"DATACENTER", "RESIDENTIAL">>

ProxyPlanOf(st) ==
    CASE st = "residential-only" -> <<"RESIDENTIAL">>
      [] st = "residential-first" -> <<"RESIDENTIAL", "DATACENTER">>
      [] st = "datacenter-only" -> <<"DATACENTER">>
      [] OTHER -> <<"DATACENTER", "RESIDENTIAL">>

getProxyPlan == ProxyPlanOf(proxyStrategy)

\* Extensions yt-dlp leaves behind /tmp/audio_<videoId>. : the container of
\* the selected format; AUDIO_MIME_TYPES knows m4a, mp3, mp4, webm and opus.
DownloadExts == {"m4a", "opus"}

buildR2ObjectKey(e) == [prefix |-> "temp-audio", stamp |-> 0, ext |-> e]

buildCandidateKeys(m) ==
    IF m THEN <<buildR2ObjectKey("webm"), buildR2ObjectKey("m4a"),
                buildR2ObjectKey("mp4"), buildR2ObjectKey("mp3")>>
         ELSE <<buildR2ObjectKey("m4a"), buildR2ObjectKey("mp4"),
                buildR2ObjectKey("webm"), buildR2ObjectKey("mp3")>>

buildObjectMetadata(e) ==
    [extractedAt |-> now, ext |-> e, minimizeSize |-> minimizeSize]

\* The caching branch of extractYouTubeVideo is entered
CachingEnabled == uploadToR2 /\ r2Client /\ r2Bucket

\* The for loop over the proxy plan reaches entry i and calls useProxyGroup
StartPlan(i) ==
    /\ index' = i
    /\ pc' = "useGroup"

\* a failure that tries the same proxy group again
ExtractionFailedSameGroup ==
    IF downloads < Len(getProxyPlan)
      THEN /\ StartPlan(index)
           /\ error' = "none"
      ELSE /\ pc' = "threw"
           /\ error' = "ExtractionFailed"
           /\ index' = index

\* performExtractionWithCurrentProxy threw: fall back to the next proxy group,
\* or rethrow when the plan has no more entries
ExtractionFailed ==
    IF index < Len(getProxyPlan)
      THEN /\ StartPlan(index + 1)
           /\ error' = "none"
      ELSE /\ pc' = "threw"
           /\ error' = "ExtractionFailed"
           /\ index' = index

\* initialize(input) up to its first await: the settings of the run are taken
\* from the input, the proxy state is cleared, establishInitialProxy starts on
\* the first entry of the plan
initialize(m, st) ==
    /\ UNCHANGED fmtVars
    /\ UNCHANGED rotation
    /\ impl = "plan"
    /\ pc \in {"new", "returned", "threw"}
    /\ calls < MaxCalls
    /\ minimizeSize' = m
    /\ proxyStrategy' = st
    /\ currentProxyGroup' = "none"
    /\ proxyUrl' = NoProxy
    /\ currentProfile' = 0
    /\ pc' = "initProxy"
    /\ index' = 1
    /\ error' = "none"
    /\ UNCHANGED <<impl, r2Client, r2Bucket, uploadToR2, calls, outcome,
                   lastError, result, store, objectKey, now, invoked, pending,
                   failedUnrotated, usableAt, rotations, downloads, uploads,
                   uploadFailed>>
    /\ UNCHANGED <<keyIndex, tmpFiles, fileExt, probed, cacheError, hadArtifact,
                   hadPersisted, groupSwitches>>

\* establishInitialProxy: useProxyGroup(plan[index]) settles; the first group
\* that is served ends initialize, the last failure is thrown to its caller
EstablishSettles(ok, p, f) ==
    /\ UNCHANGED fmtVars
    /\ UNCHANGED rotation
    /\ impl = "plan"
    /\ pc = "initProxy"
    /\ IF ok
         THEN /\ proxyUrl' = p
              /\ currentProxyGroup' = getProxyPlan[index]
              /\ currentProfile' = f
              /\ pc' = "idle"
              /\ UNCHANGED <<index, error>>
         ELSE /\ UNCHANGED <<proxyUrl, currentProxyGroup, currentProfile>>
              /\ IF index < Len(getProxyPlan)
                   THEN /\ index' = index + 1
                        /\ pc' = "initProxy"
                        /\ error' = error
                   ELSE /\ pc' = "new"
                        /\ error' = "ProxyConfigFailed"
                        /\ index' = index
    /\ UNCHANGED <<impl, r2Client, r2Bucket, uploadToR2, calls, outcome,
                   lastError, result, store, objectKey, now, invoked, pending,
                   failedUnrotated, usableAt, rotations, downloads, uploads,
                   uploadFailed>>
    /\ UNCHANGED <<proxyStrategy, minimizeSize, keyIndex, tmpFiles, fileExt, probed,
                   cacheError, hadArtifact, hadPersisted, groupSwitches>>

\* extractYouTubeVideo(videoUrl, uploadToR2) up to its first await
extractYouTubeVideo(u, valid) ==
    /\ UNCHANGED fmtVars
    /\ UNCHANGED rotation
    /\ impl = "plan"
    /\ pc \in {"idle", "returned", "threw"}
    /\ calls < MaxCalls
    /\ calls' = calls + 1
    /\ uploadToR2' = u
    /\ result' = "none"
    /\ objectKey' = NoKey
    /\ fileExt' = "none"
    /\ downloads' = 0
    /\ uploads' = 0
    /\ uploadFailed' = FALSE
    /\ cacheError' = FALSE
    /\ groupSwitches' = 0
    /\ hadArtifact' = (store # {})
    /\ hadPersisted' = (\E o \in store : o.meta.extractedAt > 0)
    /\ IF ~valid
         THEN /\ pc' = "threw"
              /\ error' = "InvalidYouTubeURL"
              /\ index' = 0
              /\ keyIndex' = 0
              /\ probed' = <<>>
         ELSE /\ error' = "none"
              /\ IF u /\ r2Client /\ r2Bucket
                   THEN /\ pc' = "head"
                        /\ index' = 0
                        /\ keyIndex' = 1
                        /\ probed' = <<buildCandidateKeys(minimizeSize)[1]>>
                   ELSE /\ StartPlan(1)
                        /\ keyIndex' = 0
                        /\ probed' = <<>>
    /\ UNCHANGED <<impl, r2Client, r2Bucket, outcome, proxyUrl, currentProfile,
                   lastError, store, now, invoked, pending, failedUnrotated,
                   usableAt, rotations>>
    /\ UNCHANGED <<proxyStrategy, minimizeSize, currentProxyGroup, tmpFiles>>

\* findExistingR2Asset: the HeadObjectCommand for candidate key keyIndex settles
HeadSettles(r) ==
    /\ UNCHANGED fmtVars
    /\ UNCHANGED rotation
    /\ impl = "plan"
    /\ pc = "head"
    /\ LET keys == buildCandidateKeys(minimizeSize)
           key == keys[keyIndex]
       IN /\ r = "found" => key \in KeysOf(store)
          /\ r = "notfound" => key \notin KeysOf(store)
          /\ IF r = "found"
               THEN /\ pc' = "returned"
                    /\ result' = "cached"
                    /\ objectKey' = key
                    /\ UNCHANGED <<index, keyIndex, probed, cacheError>>
               ELSE /\ cacheError' = (cacheError \/ r = "error")
                    /\ UNCHANGED <<result, objectKey>>
                    /\ IF keyIndex < Len(keys)
                         THEN /\ keyIndex' = keyIndex + 1
                              /\ probed' = Append(probed, keys[keyIndex + 1])
                              /\ pc' = "head"
                              /\ index' = index
                         ELSE /\ StartPlan(1)
                              /\ UNCHANGED <<keyIndex, probed>>
    /\ UNCHANGED <<impl, r2Client, r2Bucket, uploadToR2, calls, outcome, proxyUrl,
                   currentProfile, lastError, error, store, now, invoked, pending,
                   failedUnrotated, usableAt, rotations, downloads, uploads,
                   uploadFailed>>
    /\ UNCHANGED <<proxyStrategy, minimizeSize, currentProxyGroup, tmpFiles,
                   fileExt, hadArtifact, hadPersisted, groupSwitches>>

\* useProxyGroup(plan[index]) settles, then logCurrentIP, then
\* performExtractionWithCurrentProxy up to the yt-dlp subprocess
UseProxyGroupSettles(ok, p, f) ==
    /\ UNCHANGED fmtVars
    /\ UNCHANGED rotation
    /\ impl = "plan"
    /\ pc = "useGroup"
    /\ IF ok
         THEN /\ proxyUrl' = p
              /\ currentProxyGroup' = getProxyPlan[index]
              /\ currentProfile' = f
              /\ groupSwitches' = groupSwitches + 1
              /\ pc' = "ytdlp"
              /\ downloads' = downloads + 1
              /\ UNCHANGED <<index, error>>
         ELSE /\ UNCHANGED <<proxyUrl, currentProxyGroup, currentProfile,
                             groupSwitches, downloads>>
              /\ IF index < Len(getProxyPlan)
                   THEN /\ StartPlan(index + 1)
                        /\ error' = "none"
                   ELSE /\ pc' = "threw"
                        /\ error' = "ProxyConfigFailed"
                        /\ index' = index
    /\ UNCHANGED <<impl, r2Client, r2Bucket, uploadToR2, calls, outcome, lastError,
                   result, store, objectKey, now, invoked, pending,
                   failedUnrotated, usableAt, rotations, uploads, uploadFailed>>
    /\ UNCHANGED <<proxyStrategy, minimizeSize, keyIndex, tmpFiles, fileExt, probed,
                   cacheError, hadArtifact, hadPersisted>>

\* YtDlpExtractor.downloadAudioDirect settles: yt-dlp wrote
\* /tmp/audio_<videoId>.<e>, files.find returns a file f with that prefix;
\* extractViaYtDlp then reads it and starts the upload
YtDlpSettles(ok, e, f) ==
    /\ UNCHANGED fmtVars
    /\ UNCHANGED rotation
    /\ impl = "plan"
    /\ pc = "ytdlp"
    /\ IF ok
         THEN /\ tmpFiles' = tmpFiles \cup {e}
              /\ f \in tmpFiles'
              /\ fileExt' = f
              /\ IF r2Client /\ r2Bucket
                   THEN /\ objectKey' = buildR2ObjectKey(f)
                        /\ pc' = "upload"
                        /\ uploads' = uploads + 1
                        /\ UNCHANGED <<index, error>>
                   ELSE /\ ExtractionFailed
                        /\ UNCHANGED <<objectKey, uploads>>
         ELSE /\ e = "webm"
              /\ f = "webm"
              /\ ExtractionFailed
              /\ UNCHANGED <<tmpFiles, fileExt, objectKey, uploads>>
    /\ UNCHANGED <<impl, r2Client, r2Bucket, uploadToR2, calls, outcome, proxyUrl,
                   currentProfile, lastError, result, store, now, invoked, pending,
                   failedUnrotated, usableAt, rotations, downloads, uploadFailed>>
    /\ UNCHANGED <<proxyStrategy, minimizeSize, currentProxyGroup, keyIndex, probed,
                   cacheError, hadArtifact, hadPersisted, groupSwitches>>

\* extractViaYtDlp: upload.done() settles
R2UploadSettles(ok) ==
    /\ UNCHANGED fmtVars
    /\ UNCHANGED rotation
    /\ impl = "plan"
    /\ pc = "upload"
    /\ IF ok
         THEN /\ store' = PutObject(store, objectKey, buildObjectMetadata(fileExt))
              /\ pc' = "unlink"
              /\ UNCHANGED <<index, error, uploadFailed>>
         ELSE /\ uploadFailed' = TRUE
              /\ ExtractionFailed
              /\ UNCHANGED store
    /\ UNCHANGED <<impl, r2Client, r2Bucket, uploadToR2, calls, outcome, proxyUrl,
                   currentProfile, lastError, result, objectKey, now, invoked,
                   pending, failedUnrotated, usableAt, rotations, downloads,
                   uploads>>
    /\ UNCHANGED <<proxyStrategy, minimizeSize, currentProxyGroup, keyIndex,
                   tmpFiles, fileExt, probed, cacheError, hadArtifact, hadPersisted,
                   groupSwitches>>

\* an unlink whose failure is thrown on
AfterUnlinkFatal(ok) == IF ok THEN "returned" ELSE "threw"

\* try { await fs.promises.unlink(...) } catch (cleanupError) { console.log(...) }
AfterUnlink(ok) == "returned"

\* extractViaYtDlp: fs.promises.unlink settles (a failure is only logged), the
\* result goes back through performExtractionWithCurrentProxy to the caller
UnlinkSettles(ok) ==
    /\ UNCHANGED fmtVars
    /\ UNCHANGED rotation
    /\ impl = "plan"
    /\ pc = "unlink"
    /\ tmpFiles' = IF ok THEN tmpFiles \ {fileExt} ELSE tmpFiles
    /\ pc' = AfterUnlink(ok)
    /\ result' = "r2"
    /\ UNCHANGED <<impl, r2Client, r2Bucket, uploadToR2, calls, index, outcome,
                   proxyUrl, currentProfile, lastError, error, store, objectKey,
                   now, invoked, pending, failedUnrotated, usableAt, rotations,
                   downloads, uploads, uploadFailed>>
    /\ UNCHANGED <<proxyStrategy, minimizeSize, currentProxyGroup, keyIndex,
                   fileExt, probed, cacheError, hadArtifact, hadPersisted,
                   groupSwitches>>

\* Objects another run of the actor left in the bucket
PreExisting ==
    {[key |-> buildR2ObjectKey(e),
      meta |-> [extractedAt |-> 0, ext |-> e, minimizeSize |-> TRUE]] :
        e \in {"webm", "m4a"}}

InitPipeline ==
    /\ NoSelection
    /\ rotation = "none"
    /\ impl = "plan"
    /\ r2Client \in BOOLEAN
    /\ r2Bucket \in BOOLEAN
    /\ store \in {{}, PreExisting}
    /\ (store # {} => r2Client /\ r2Bucket)
    /\ uploadToR2 = FALSE
    /\ calls = 0
    /\ pc = "new"
    /\ index = 0
    /\ outcome = "none"
    /\ proxyUrl = NoProxy
    /\ currentProfile = 0
    /\ lastError = 0
    /\ result = "none"
    /\ error = "none"
    /\ objectKey = NoKey
    /\ now = 1
    /\ invoked = <<>>
    /\ pending = {}
    /\ failedUnrotated = FALSE
    /\ usableAt = 0
    /\ rotations = 0
    /\ downloads = 0
    /\ uploads = 0
    /\ uploadFailed = FALSE
    /\ proxyStrategy = "datacenter-first"
    /\ minimizeSize = TRUE
    /\ currentProxyGroup = "none"
    /\ keyIndex = 0
    /\ tmpFiles = {}
    /\ fileExt = "none"
    /\ probed = <<>>
    /\ cacheError = FALSE
    /\ hadArtifact = FALSE
    /\ hadPersisted = FALSE
    /\ groupSwitches = 0

NextPipeline ==
    \/ \E m \in BOOLEAN, st \in ProxyStrategies : initialize(m, st)
    \/ \E ok \in BOOLEAN, p \in 1..MaxProxy, f \in 1..NumProfiles :
          EstablishSettles(ok, p, f)
    \/ \E u \in BOOLEAN, valid \in BOOLEAN : extractYouTubeVideo(u, valid)
    \/ \E r \in {"found", "notfound", "error"} : HeadSettles(r)
    \/ \E ok \in BOOLEAN, p \in 1..MaxProxy, f \in 1..NumProfiles :
          UseProxyGroupSettles(ok, p, f)
    \/ \E ok \in BOOLEAN, e \in DownloadExts, f \in DownloadExts : YtDlpSettles(ok, e, f)
    \/ \E ok \in BOOLEAN : R2UploadSettles(ok)
    \/ \E ok \in BOOLEAN : UnlinkSettles(ok)

SpecPipeline == InitPipeline /\ [][NextPipeline]_vars

----------------------------------------------------------------------------
\* Properties of the cache-gated pipeline (specification SpecPipeline)

\* the call is past the cache lookup: a proxy group is being switched to, the
\* subprocess runs, or an upload or the cleanup after it is in flight
PastLookup == pc \in {"useGroup", "ytdlp", "upload", "unlink"}

\* C2 as stated: with caching enabled and an object of the identifier in the
\* store when the call began, the call switches no proxy group, runs no
\* subprocess and uploads nothing, and what it returns is the cached asset.
C2_CachedAssetShortCircuits ==
    (CachingEnabled /\ hadArtifact)
        => /\ ~PastLookup
           /\ groupSwitches = 0
           /\ downloads = 0
           /\ uploads = 0
           /\ (pc = "returned" => result = "cached")

\* C2, the part that holds: the lookup comes before every other step. With
\* caching enabled a call is past the lookup only after it sent a HEAD for each
\* of the four candidate keys, and a call that returns the cached asset has
\* switched no proxy group, run no subprocess and uploaded nothing.
C2_LookupPrecedesEveryStep ==
    CachingEnabled
        => /\ (PastLookup \/ (pc = "returned" /\ result = "r2"))
                 => probed = buildCandidateKeys(minimizeSize)
           /\ result = "cached"
                 => (groupSwitches = 0 /\ downloads = 0 /\ uploads = 0)

\* C2: the store held the identifier's audio when the call began, caching was
\* on, every lookup was answered, and yet the subprocess ran and a second
\* upload is in flight
C2_Witness ==
    /\ CachingEnabled
    /\ hadArtifact
    /\ ~cacheError
    /\ pc = "upload"
    /\ downloads > 0

\* C9 as stated: once a call has uploaded the identifier's audio, a later call
\* with caching enabled whose lookups were all answered returns the cached
\* asset and uploads nothing.
C9_PersistedAtMostOnce ==
    (CachingEnabled /\ hadPersisted /\ ~cacheError /\ pc = "returned")
        => (result = "cached" /\ uploads = 0)

\* C9: the earlier call stored the audio under the extension opus, the later
\* call looked up its four candidate keys, missed, and uploaded again
C9_Witness ==
    /\ CachingEnabled
    /\ hadPersisted
    /\ ~cacheError
    /\ pc = "returned"
    /\ result = "r2"
    /\ Len(probed) = 4
    /\ buildR2ObjectKey("opus") \in KeysOf(store)

\* C10 as stated: a lookup that failed with anything but not-found ends the call
\* with an error: no further lookup, no extraction, no upload, no result.
C10_LookupErrorSurfaced ==
    cacheError => pc \notin {"head", "useGroup", "ytdlp", "upload", "unlink", "returned"}

\* C10: a lookup failed, the call went on and returned an uploaded result
C10_Witness ==
    /\ cacheError
    /\ pc = "returned"
    /\ result = "r2"
    /\ uploads > 0

\* the call is past the lookup and has not yet put anything into the store
BeforePut == pc \in {"useGroup", "ytdlp", "upload"}

\* the first of the candidate keys that the store holds, NoKey if it holds none
FirstExisting(keys, st) ==
    IF \E k \in 1..Len(keys) : keys[k] \in KeysOf(st)
      THEN keys[CHOOSE k \in 1..Len(keys) :
                  /\ keys[k] \in KeysOf(st)
                  /\ \A j \in 1..(k - 1) : keys[j] \notin KeysOf(st)]
      ELSE NoKey

\* C11 as stated: the lookup returns the first candidate key that exists, and
\* it returns null (the call goes on to extract) only if none of them exists.
C11_FirstExistingKeyReturned ==
    CachingEnabled
        => /\ (pc = "returned" /\ result = "cached")
                 => objectKey = FirstExisting(buildCandidateKeys(minimizeSize), store)
           /\ BeforePut
                 => FirstExisting(buildCandidateKeys(minimizeSize), store) = NoKey

\* C11, the part that holds: the keys are probed in their priority order, the
\* key returned is the last one probed (nothing is probed after a hit) and it
\* exists; where every HEAD was answered, it is the first existing key, and the
\* lookup returned null only with none of the keys in the store.
C11_ProbedInPriorityOrder ==
    (CachingEnabled /\ (pc \in {"head", "returned"} \/ BeforePut))
        => LET keys == buildCandidateKeys(minimizeSize)
           IN /\ Len(probed) <= Len(keys)
              /\ \A k \in 1..Len(probed) : probed[k] = keys[k]
              /\ (pc = "returned" /\ result = "cached")
                    => /\ objectKey = probed[Len(probed)]
                       /\ objectKey \in KeysOf(store)
                       /\ ~cacheError => objectKey = FirstExisting(keys, store)
              /\ (BeforePut /\ ~cacheError) => FirstExisting(keys, store) = NoKey

\* C11: webm and m4a both exist, webm is first in the order, its HEAD failed
\* and the lookup returned m4a
C11_Witness ==
    /\ CachingEnabled
    /\ minimizeSize
    /\ pc = "returned"
    /\ result = "cached"
    /\ buildR2ObjectKey("webm") \in KeysOf(store)
    /\ objectKey = buildR2ObjectKey("m4a")
    /\ probed = <<buildR2ObjectKey("webm"), buildR2ObjectKey("m4a")>>

----------------------------------------------------------------------------
\* Both parts together: an instance of any of the five classes

\* C26: a successful upload is followed by the deletion of the temporary
\* file, and whether the deletion works or fails the run returns the stored
\* object as its result
C26_CleanupFailureNotFatal ==
    [][/\ (impl = "plan" /\ pc = "upload" /\ pc' # pc) =>
            \/ pc' = "unlink" /\ \E o \in store' : o.key = objectKey
            \/ pc' \in {"useGroup", "threw"} /\ store' = store /\ tmpFiles' = tmpFiles
       /\ (impl = "plan" /\ pc = "unlink") =>
            /\ pc' = "returned"
            /\ result' = "r2"
            /\ error' = error
            /\ store' = store
            /\ tmpFiles' \in {tmpFiles \ {fileExt}, tmpFiles}]_vars

\* the run returned its stored object while the temporary file is still there:
\* the deletion had failed
C26_Witness ==
    /\ impl = "plan"
    /\ pc = "returned"
    /\ result = "r2"
    /\ hadPersisted
    /\ fileExt \in tmpFiles

InitAny == Init \/ InitPipeline

NextAny == Next \/ NextPipeline

SpecAny == InitAny /\ [][NextAny]_vars

\* Properties of the egress identity (specification SpecAny)

C14_RotationNeverReusesAddress ==
    (pc = "awaitMethod" /\ rotation \notin {"none", "threw", "direct"})
        => rotation = "new"

\* C14: the next strategy runs through the proxy URL of the attempt before,
\* which the provider handed out again
C14_Witness ==
    /\ pc = "awaitMethod"
    /\ rotation = "same"
    /\ rotations > 0
    /\ proxyUrl # NoProxy

----------------------------------------------------------------------------
\* Part III: format selection

\* Sequences over S of length at most n
SeqUpTo(S, n) == UNION {[1..k -> S] : k \in 0..n}

\* the entries of a list that pass a test, in list order, as their indices
IndicesOf(fs, Test(_)) == {k \in 1..Len(fs) : Test(fs[k])}

\* Array.prototype.filter, from the set of surviving indices
RECURSIVE Filtered(_, _, _)
Filtered(fs, keep, k) ==
    IF k > Len(fs) THEN <<>>
    ELSE IF k \in keep THEN <<fs[k]>> \o Filtered(fs, keep, k + 1)
    ELSE Filtered(fs, keep, k + 1)

\* typeof x === 'number' fails
NoRate == -1

\* yt-dlp -J format entries: format_id, acodec, abr, tbr
YtDlpFormats ==
    [format_id : {"250", "139", "18"}, acodec : {"mp4a", "none"},
     abr : {NoRate, 48, 70}, tbr : {NoRate, 60}]

\* acodec && acodec !== 'none'
HasAudio(f) == f.acodec # "none"

\* typeof format.abr === 'number' || typeof format.tbr === 'number'
HasRate(f) == f.abr # NoRate \/ f.tbr # NoRate

\* typeof a.abr === 'number' ? a.abr : a.tbr
RateOf(f) == IF f.abr # NoRate THEN f.abr ELSE f.tbr

preferredItags == <<"249", "250", "140", "251", "139">>

\* YtDlpExtractor.pickMinimalAudioFormat(formats)
pickMinimalAudioFormat(fs) ==
    LET audioFormats == Filtered(fs, IndicesOf(fs, HasAudio), 1)
        hits == {i \in 1..Len(preferredItags) :
                    \E k \in 1..Len(audioFormats) :
                        audioFormats[k].format_id = preferredItags[i]}
        itag == preferredItags[CHOOSE i \in hits : \A j \in hits : i <= j]
        match == CHOOSE k \in 1..Len(audioFormats) :
                    /\ audioFormats[k].format_id = itag
                    /\ \A j \in 1..(k - 1) : audioFormats[j].format_id # itag
        rated == Filtered(audioFormats, IndicesOf(audioFormats, HasRate), 1)
        \* sort() is stable: the first of the entries with the lowest rate
        least == CHOOSE k \in 1..Len(rated) :
                    /\ \A j \in 1..Len(rated) : RateOf(rated[k]) <= RateOf(rated[j])
                    /\ \A j \in 1..(k - 1) : RateOf(rated[j]) # RateOf(rated[k])
    IN IF Len(audioFormats) = 0 THEN <<>>
       ELSE IF hits # {} THEN <<audioFormats[match]>>
       ELSE IF Len(rated) > 0 THEN <<rated[least]>>
       ELSE <<audioFormats[1]>>

\* downloadAudioDirect with minimizeSize: selectedFormat = pickMinimalAudioFormat(formats)
SelectMinimal ==
    /\ kind = "ytdlp"
    /\ selectedBefore' = selected
    /\ selected' = Returned(pickMinimalAudioFormat(formats))
    /\ UNCHANGED <<kind, formats, combined, url, carried, auxVars>>
    /\ UNCHANGED <<chainVars, pipeVars>>

MaxFormats == 2

\* no resolver instance is running: the selectors are static / pure
NoInstance ==
    /\ rotation = "none"
    /\ impl = "select"
    /\ r2Client = FALSE
    /\ r2Bucket = FALSE
    /\ uploadToR2 = FALSE
    /\ calls = 0
    /\ pc = "idle"
    /\ index = 0
    /\ outcome = "none"
    /\ proxyUrl = NoProxy
    /\ currentProfile = 1
    /\ lastError = 0
    /\ result = "none"
    /\ error = "none"
    /\ store = {}
    /\ objectKey = NoKey
    /\ now = 1
    /\ invoked = <<>>
    /\ pending = {}
    /\ failedUnrotated = FALSE
    /\ usableAt = 0
    /\ rotations = 0
    /\ downloads = 0
    /\ uploads = 0
    /\ uploadFailed = FALSE
    /\ proxyStrategy = "none"
    /\ minimizeSize = FALSE
    /\ currentProxyGroup = "none"
    /\ keyIndex = 0
    /\ tmpFiles = {}
    /\ fileExt = "none"
    /\ probed = <<>>
    /\ cacheError = FALSE
    /\ hadArtifact = FALSE
    /\ hadPersisted = FALSE
    /\ groupSwitches = 0

\* the format list a selector is handed
InitYtDlp ==
    /\ kind = "ytdlp"
    /\ formats \in SeqUpTo(YtDlpFormats, MaxFormats)
    /\ combined = "none"

\* streamingData.adaptiveFormats entries; access is what the entry carries:
\* a direct url, a signatureCipher with url and s, a signatureCipher lacking
\* one of them, a signatureCipher whose url is not valid percent-encoding, or
\* neither url nor signatureCipher
WatchFormats ==
    [mimeType : {"audio/mp4", "audio/webm", "video/mp4"}, itag : {140, 251},
     access : {"url", "cipher", "badcipher", "malformed", "none"}]

\* streamingData.formats: absent or empty, or its first entry with / without url
CombinedLists == {"empty", "url", "nourl"}

\* mimeType.startsWith('audio/')
IsAudioMime(m) == m \in {"audio/mp4", "audio/webm"}

\* the try block of decodeSignatureCipher: null if url or s is missing,
\* decodeURIComponent throws URIError on a malformed url
decodeUnguarded(access) ==
    CASE access = "cipher" -> "decoded"
      [] access = "malformed" -> "URIError"
      [] OTHER -> "null"

\* decodeSignatureCipher: try { ... } catch (error) { return null }
decodeSignatureCipher(access) ==
    IF decodeUnguarded(access) = "URIError" THEN "null" ELSE decodeUnguarded(access)

FinalUrlDirectOnly(f) == IF f.access = "url" THEN "direct" ELSE "null"

\* let finalUrl = format.url; if (!finalUrl && format.signatureCipher) finalUrl = decode(...)
FinalUrl(f) ==
    IF f.access = "url" THEN "direct"
    ELSE IF f.access \in {"cipher", "badcipher", "malformed"}
         THEN decodeSignatureCipher(f.access)
    ELSE "null"

\* the audioFormat object pushed for an adaptive format
AudioFormatOf(f) ==
    [itag |-> f.itag, mimeType |-> f.mimeType, url |-> FinalUrl(f), combined |-> FALSE]

\* ApifyYouTubeProxy.extractAudioOnlyFormats(streamingData)
extractAudioOnlyFormats(fs) ==
    LET aac == {k \in 1..Len(fs) :
                    /\ fs[k].mimeType = "audio/mp4"
                    /\ fs[k].itag = 140
                    /\ fs[k].access # "none"
                    /\ FinalUrl(fs[k]) # "null"}
        any == {k \in 1..Len(fs) :
                    /\ IsAudioMime(fs[k].mimeType)
                    /\ fs[k].access # "none"
                    /\ FinalUrl(fs[k]) # "null"}
        first(S) == CHOOSE k \in S : \A j \in S : k <= j
    IN IF aac # {} THEN <<AudioFormatOf(fs[first(aac)])>>
       ELSE IF any # {} THEN <<AudioFormatOf(fs[first(any)])>>
       ELSE <<>>

\* the audioFormat object built from streamingData.formats[0]
CombinedFormat == [itag |-> 18, mimeType |-> "video/mp4", url |-> "direct", combined |-> TRUE]

\* extractViaWatchPage, from the parsed streamingData on: the audioFormats it
\* returns, empty when it throws 'No player response found'
extractViaWatchPage(fs, c) ==
    LET audioFormats == extractAudioOnlyFormats(fs)
    IN IF Len(audioFormats) > 0 THEN audioFormats
       ELSE IF c = "url" THEN <<CombinedFormat>>
       ELSE <<>>

SelectWatch ==
    /\ kind = "watch"
    /\ selectedBefore' = selected
    /\ selected' = Returned(extractViaWatchPage(formats, combined))
    /\ UNCHANGED <<kind, formats, combined, url, carried, auxVars>>
    /\ UNCHANGED <<chainVars, pipeVars>>

InitWatch ==
    /\ kind = "watch"
    /\ formats \in SeqUpTo(WatchFormats, MaxFormats)
    /\ combined \in CombinedLists

\* player-response formats: mimeType, qualityLabel, and whether the entry
\* has a url and no signatureCipher ("url") or is signature-protected ("cipher")
PlayerFormats ==
    [mimeType : {"video/mp4", "video/webm", "audio/mp4", "audio/webm", "audio/x-m4a"},
     qualityLabel : {"1080p", "720p", "360p"},
     access : {"url", "cipher"}]

\* f.url && !f.signatureCipher
HasPlainUrl(f) == f.access = "url"

\* mimeType?.includes('video')
IncludesVideo(m) == m \in {"video/mp4", "video/webm"}

\* mimeType?.includes('audio')
IncludesAudio(m) == m \in {"audio/mp4", "audio/webm", "audio/x-m4a"}

\* mimeType?.includes('mp4')
IncludesMp4(m) == m \in {"video/mp4", "audio/mp4"}

\* mimeType?.includes('m4a')
IncludesM4a(m) == m = "audio/x-m4a"

IsPlayableVideo(f) == IncludesVideo(f.mimeType) /\ HasPlainUrl(f)

IsPlayableAudio(f) == IncludesAudio(f.mimeType) /\ HasPlainUrl(f)

\* Array.prototype.find: the first entry passing the test, as a list of at most one
Find(fs, Test(_)) ==
    LET hits == IndicesOf(fs, Test)
    IN IF hits = {} THEN <<>> ELSE <<fs[CHOOSE k \in hits : \A j \in hits : k <= j]>>

\* list[0]: undefined on an empty list
AtZero(fs) == IF Len(fs) = 0 THEN <<>> ELSE <<fs[1]>>

qualityOrder == <<"720p", "480p", "360p", "240p", "144p">>

\* the fallback of findBestVideoFormat without || videoFormats[0]
VideoFallbackMp4Only(videoFormats) ==
    Find(videoFormats, LAMBDA f : IncludesMp4(f.mimeType))

\* videoFormats.find(f => f.mimeType?.includes('mp4')) || videoFormats[0]
VideoFallback(videoFormats) ==
    LET mp4 == Find(videoFormats, LAMBDA f : IncludesMp4(f.mimeType))
    IN IF mp4 # <<>> THEN mp4 ELSE AtZero(videoFormats)

\* YouTubeParser.findBestVideoFormat(formats)
findBestVideoFormat(fs) ==
    LET videoFormats == Filtered(fs, IndicesOf(fs, IsPlayableVideo), 1)
        ofQuality(q) == Find(videoFormats,
                             LAMBDA f : f.qualityLabel = q /\ IncludesMp4(f.mimeType))
        hits == {i \in 1..Len(qualityOrder) : ofQuality(qualityOrder[i]) # <<>>}
    IN IF hits # {}
       THEN ofQuality(qualityOrder[CHOOSE i \in hits : \A j \in hits : i <= j])
       ELSE VideoFallback(videoFormats)

\* YouTubeParser.findBestAudioFormat(formats)
findBestAudioFormat(fs) ==
    LET audioFormats == Filtered(fs, IndicesOf(fs, IsPlayableAudio), 1)
        mp4 == Find(audioFormats, LAMBDA f : IncludesMp4(f.mimeType))
        m4a == Find(audioFormats, LAMBDA f : IncludesM4a(f.mimeType))
    IN IF mp4 # <<>> THEN mp4
       ELSE IF m4a # <<>> THEN m4a
       ELSE AtZero(audioFormats)

\* parseStreamingData: const videoFormat = this.findBestVideoFormat(allFormats)
SelectVideo ==
    /\ kind = "playerVideo"
    /\ selectedBefore' = selected
    /\ selected' = Returned(findBestVideoFormat(formats))
    /\ UNCHANGED <<kind, formats, combined, url, carried, auxVars>>
    /\ UNCHANGED <<chainVars, pipeVars>>

\* parseStreamingData: const audioFormat = this.findBestAudioFormat(allFormats)
SelectAudio ==
    /\ kind = "playerAudio"
    /\ selectedBefore' = selected
    /\ selected' = Returned(findBestAudioFormat(formats))
    /\ UNCHANGED <<kind, formats, combined, url, carried, auxVars>>
    /\ UNCHANGED <<chainVars, pipeVars>>

InitPlayer ==
    /\ kind \in {"playerVideo", "playerAudio"}
    /\ formats \in SeqUpTo(PlayerFormats, MaxFormats)
    /\ combined = "none"

InitFormats ==
    /\ NoInstance
    /\ selected = Unselected
    /\ selectedBefore = Unselected
    /\ url = <<>>
    /\ carried = NoUrl
    /\ NoAux
    /\ (InitYtDlp \/ InitWatch \/ InitPlayer)

NextFormats ==
    \/ SelectMinimal
    \/ SelectWatch
    \/ SelectVideo
    \/ SelectAudio

SpecFormats == InitFormats /\ [][NextFormats]_vars

\* C15: with minimizeSize the chosen audio format never has a higher bitrate
\* than another usable audio candidate of the same format list
C15_NeverHigherBitrate ==
    (kind = "ytdlp" /\ selected.done /\ selected.out # <<>>) =>
        \A k \in 1..Len(formats) :
            (HasAudio(formats[k]) /\ HasRate(formats[k]) /\ HasRate(selected.out[1])) =>
                RateOf(selected.out[1]) <= RateOf(formats[k])

\* a format was chosen from a list holding usable audio candidates of different bitrates
C15_Witness ==
    /\ kind = "ytdlp"
    /\ selected.done
    /\ selected.out # <<>>
    /\ \E j, k \in 1..Len(formats) :
        /\ HasAudio(formats[j]) /\ HasRate(formats[j])
        /\ HasAudio(formats[k]) /\ HasRate(formats[k])
        /\ RateOf(formats[j]) < RateOf(formats[k])

\* an adaptive format that is audio-only and whose URL is direct or decodable
UsableAudioOnly(f) ==
    /\ f.mimeType \in {"audio/mp4", "audio/webm"}
    /\ f.access \in {"url", "cipher"}

\* C16: an audio-only variant is returned whenever a usable audio-only variant
\* is in the input; the combined audio+video variant only when there is none
C16_AudioOnlyBeforeCombined ==
    (kind = "watch" /\ selected.done) =>
        LET usable == {k \in 1..Len(formats) : UsableAudioOnly(formats[k])}
        IN /\ usable # {} =>
                /\ selected.out # <<>>
                /\ ~selected.out[1].combined
                /\ \E k \in usable :
                    /\ selected.out[1].itag = formats[k].itag
                    /\ selected.out[1].mimeType = formats[k].mimeType
                    /\ selected.out[1].url # "null"
           /\ (selected.out # <<>> /\ selected.out[1].combined) => usable = {}
           /\ (usable = {} /\ combined = "url") =>
                (selected.out # <<>> /\ selected.out[1].combined)

\* a cipher-protected audio-only variant was chosen although a combined
\* variant with a direct URL was on offer
C16_Witness ==
    /\ kind = "watch"
    /\ selected.done
    /\ combined = "url"
    /\ selected.out # <<>>
    /\ ~selected.out[1].combined
    /\ selected.out[1].url = "decoded"

\* the usability filter of the selector in use
PassesFilter(f) ==
    CASE kind = "ytdlp" -> f.acodec # "none"
      [] kind = "playerVideo" -> f.mimeType \in {"video/mp4", "video/webm"} /\ f.access = "url"
      [] kind = "playerAudio" ->
            f.mimeType \in {"audio/mp4", "audio/webm", "audio/x-m4a"} /\ f.access = "url"
      [] OTHER -> FALSE

----------------------------------------------------------------------------
\* Part IV: identifier parsing. A string is the sequence of its characters.

\* {11}
TokenLen == 11

\* [a-zA-Z0-9_-]
IdChars ==
    {
     "a", "b", "c", "d", "e", "f", "g", "h", "i", "j", "k", "l", "m", "n",
     "o", "p", "q", "r", "s", "t", "u", "v", "w", "x", "y", "z", "A", "B",
     "C", "D", "E", "F", "G", "H", "I", "J", "K", "L", "M", "N", "O", "P",
     "Q", "R", "S", "T", "U", "V", "W", "X", "Y", "Z", "0", "1", "2", "3",
     "4", "5", "6", "7", "8", "9", "_", "-"}

\* the characters [^"&?\/\s] leaves out (whitespace: the space)
LooseExcluded == {"\"", "&", "?", "/", " "}

\* the literals of the patterns
LitYoutubeCom == <<"y", "o", "u", "t", "u", "b", "e", ".", "c", "o", "m", "/">>

LitWatchV == <<"y", "o", "u", "t", "u", "b", "e", ".", "c", "o", "m", "/", "w", "a", "t", "c", "h", "?", "v", "=">>

LitYoutuBe == <<"y", "o", "u", "t", "u", ".", "b", "e", "/">>

LitEmbed == <<"y", "o", "u", "t", "u", "b", "e", ".", "c", "o", "m", "/", "e", "m", "b", "e", "d", "/">>

LitV == <<"y", "o", "u", "t", "u", "b", "e", ".", "c", "o", "m", "/", "v", "/">>

\* the literal lit stands in s at position i
MatchAt(s, i, lit) ==
    /\ i + Len(lit) - 1 <= Len(s)
    /\ \A j \in 1..Len(lit) : s[i + j - 1] = lit[j]

\* ([a-zA-Z0-9_-]{11}) matches at position i
IdTokenAt(s, i) ==
    /\ i + TokenLen - 1 <= Len(s)
    /\ \A j \in i..(i + TokenLen - 1) : s[j] \in IdChars

\* ([^"&?\/\s]{11}) matches at position i
LooseTokenAt(s, i) ==
    /\ i + TokenLen - 1 <= Len(s)
    /\ \A j \in i..(i + TokenLen - 1) : s[j] \notin LooseExcluded

\* String.prototype.match without the g flag: the match starting leftmost;
\* CapAt(i) is where group 1 starts in the match starting at i, 0 if none
MatchGroup1(s, CapAt(_)) ==
    LET starts == {i \in 1..Len(s) : CapAt(i) # 0}
        i0 == CHOOSE i \in starts : \A j \in starts : i <= j
    IN IF starts = {} THEN <<>>
       ELSE <<SubSeq(s, CapAt(i0), CapAt(i0) + TokenLen - 1)>>

\* /(?:youtube\.com\/watch\?v=|youtu\.be\/|youtube\.com\/embed\/)([a-zA-Z0-9_-]{11})/
Pattern1(s) ==
    LET head(i, lit) == MatchAt(s, i, lit) /\ IdTokenAt(s, i + Len(lit))
        CapAt(i) == IF head(i, LitWatchV) THEN i + Len(LitWatchV)
                    ELSE IF head(i, LitYoutuBe) THEN i + Len(LitYoutuBe)
                    ELSE IF head(i, LitEmbed) THEN i + Len(LitEmbed)
                    ELSE 0
    IN MatchGroup1(s, CapAt)

\* a pattern that matches nothing
PatternNever(s) == <<>>

\* /youtube\.com\/v\/([a-zA-Z0-9_-]{11})/
Pattern2(s) ==
    LET CapAt(i) == IF MatchAt(s, i, LitV) /\ IdTokenAt(s, i + Len(LitV))
                    THEN i + Len(LitV) ELSE 0
    IN MatchGroup1(s, CapAt)

\* [?&]v= stands at position j
VParamAt(s, j) ==
    /\ j + 2 <= Len(s)
    /\ s[j] \in {"?", "&"}
    /\ s[j + 1] = "v"
    /\ s[j + 2] = "="

\* the largest element of a non-empty set of positions (greedy .* and .+)
Last(S) == CHOOSE k \in S : \A j \in S : j <= k

\* /youtube\.com\/.*[?&]v=([a-zA-Z0-9_-]{11})/
Pattern3(s) ==
    LET at(i) == {j \in (i + Len(LitYoutubeCom))..Len(s) :
                        VParamAt(s, j) /\ IdTokenAt(s, j + 3)}
        CapAt(i) == IF MatchAt(s, i, LitYoutubeCom) /\ at(i) # {}
                    THEN Last(at(i)) + 3 ELSE 0
    IN MatchGroup1(s, CapAt)

\* YouTubeParser.extractVideoId(url): the first pattern that matches
extractVideoId(s) ==
    IF Pattern1(s) # <<>> THEN Pattern1(s)
    ELSE IF Pattern2(s) # <<>> THEN Pattern2(s)
    ELSE Pattern3(s)

\* ApifyYouTubeProxy.extractVideoId(url):
\* /(?:youtube\.com\/(?:[^\/]+\/.+\/|(?:v|e(?:mbed)?)\/|.*[?&]v=)|youtu\.be\/)([^"&?\/\s]{11})/
extractVideoIdLoose(s) ==
    LET \* [^\/]+\/.+\/ from p: a segment, a slash, at least one character, a slash
        slashes(p) == {k \in (p + 1)..Len(s) : s[k] = "/"}
        first(p) == CHOOSE k \in slashes(p) : \A j \in slashes(p) : k <= j
        deep(p) == IF p > Len(s) \/ s[p] = "/" \/ slashes(p) = {} THEN {}
                   ELSE {k \in (first(p) + 2)..Len(s) :
                            s[k] = "/" /\ LooseTokenAt(s, k + 1)}
        \* (?:v|e(?:mbed)?)\/
        short(p) == {q \in {p + 2, p + 6} :
                        /\ \/ q = p + 2 /\ MatchAt(s, p, <<"v", "/">>)
                           \/ q = p + 2 /\ MatchAt(s, p, <<"e", "/">>)
                           \/ q = p + 6 /\ MatchAt(s, p, <<"e", "m", "b", "e", "d", "/">>)
                        /\ LooseTokenAt(s, q)}
        \* .*[?&]v=
        param(p) == {j \in p..Len(s) : VParamAt(s, j) /\ LooseTokenAt(s, j + 3)}
        inner(p) == IF deep(p) # {} THEN Last(deep(p)) + 1
                    ELSE IF short(p) # {} THEN Last(short(p))
                    ELSE IF param(p) # {} THEN Last(param(p)) + 3
                    ELSE 0
        CapAt(i) == IF MatchAt(s, i, LitYoutubeCom) THEN inner(i + Len(LitYoutubeCom))
                    ELSE IF MatchAt(s, i, LitYoutuBe)
                            /\ LooseTokenAt(s, i + Len(LitYoutuBe))
                         THEN i + Len(LitYoutuBe)
                    ELSE 0
    IN MatchGroup1(s, CapAt)

MaxParams == 1

\* Concatenation of a list of strings
RECURSIVE Concat(_)
Concat(ss) == IF ss = <<>> THEN <<>> ELSE Head(ss) \o Concat(Tail(ss))

Schemes == {<<"h", "t", "t", "p", "s", ":", "/", "/">>, <<"h", "t", "t", "p", "s", ":", "/", "/", "w", "w", "w", ".">>}

\* what stands before the token position in each accepted URL shape
ShapePrefix(shape) ==
    CASE shape = "watch" -> LitWatchV
      [] shape = "short" -> LitYoutuBe
      [] shape = "embed" -> LitEmbed
      [] shape = "v" -> LitV
      [] shape = "watchParam" -> <<"y", "o", "u", "t", "u", "b", "e", ".", "c", "o", "m", "/", "w", "a", "t", "c", "h", "?", "f", "e", "a", "t", "u", "r", "e", "=", "s", "h", "a", "r", "e", "&", "v", "=">>

AcceptedShapes == {"watch", "short", "embed", "v", "watchParam"}

\* strings with no token position at all
Tokenless ==
    {<<"h", "t", "t", "p", "s", ":", "/", "/", "e", "x", "a", "m", "p", "l", "e", ".", "c", "o", "m">>,
     <<"h", "t", "t", "p", "s", ":", "/", "/", "y", "o", "u", "t", "u", "b", "e", ".", "c", "o", "m">>,
     <<"h", "t", "t", "p", "s", ":", "/", "/", "y", "o", "u", "t", "u", "b", "e", ".", "c", "o", "m", "/", "w", "a", "t", "c", "h">>,
     <<"n", "o", "t", "-", "a", "-", "u", "r", "l">>,
     <<>>}

WellFormedTokens ==
    {<<"d", "Q", "w", "4", "w", "9", "W", "g", "X", "c", "Q">>,
     <<"a", "-", "B", "_", "c", "-", "D", "_", "e", "-", "9">>}

\* too short, too long, a character outside [A-Za-z0-9_-], nothing
MalformedTokens ==
    {<<"d", "Q", "w", "4", "w", "9", "W", "g", "X", "c">>,
     <<"d", "Q", "w", "4", "w", "9", "W", "g", "X", "c", "Q", "Q">>,
     <<"d", "Q", "w", "4", "w", "9", "W", "g", "X", "!", "Q">>,
     <<>>}

\* extra query parameters after the token
Params ==
    {<<"&", "l", "i", "s", "t", "=", "P", "L", "E", "x", "a", "m", "p", "l", "e">>,
     <<"&", "t", "=", "4", "2", "s">>}

UrlOf(c) == c.scheme \o ShapePrefix(c.shape) \o c.token \o Concat(c.extra)

InitIdentifier ==
    /\ NoInstance
    /\ NoAux
    /\ formats = <<>>
    /\ combined = "none"
    /\ selected = Unselected
    /\ selectedBefore = Unselected
    /\ kind \in {"YouTubeParser", "ApifyYouTubeProxy"}
    /\ \/ /\ carried \in [scheme : Schemes, shape : AcceptedShapes,
                          token : WellFormedTokens \cup MalformedTokens,
                          extra : SeqUpTo(Params, MaxParams)]
          /\ url = UrlOf(carried)
       \/ /\ url \in Tokenless
          /\ carried = NoUrl

\* const result = YouTubeParser.extractVideoId(url)
ParseStatic ==
    /\ kind = "YouTubeParser"
    /\ selectedBefore' = selected
    /\ selected' = Returned(extractVideoId(url))
    /\ UNCHANGED <<kind, formats, combined, url, carried, auxVars>>
    /\ UNCHANGED <<chainVars, pipeVars>>

\* const videoId = this.extractVideoId(videoUrl)
ParseLoose ==
    /\ kind = "ApifyYouTubeProxy"
    /\ selectedBefore' = selected
    /\ selected' = Returned(extractVideoIdLoose(url))
    /\ UNCHANGED <<kind, formats, combined, url, carried, auxVars>>
    /\ UNCHANGED <<chainVars, pipeVars>>

NextIdentifier ==
    \/ ParseStatic
    \/ ParseLoose

SpecIdentifier == InitIdentifier /\ [][NextIdentifier]_vars

NoWellFormedToken ==
    \/ url \in Tokenless
    \/ carried.shape \in AcceptedShapes /\ carried.token \in MalformedTokens

\* C19: a string that carries no well-formed 11-character token parses to null
C19_NullWithoutWellFormedToken ==
    (selected.done /\ NoWellFormedToken) => selected.out = <<>>

\* C19: a string with no token position, or with fewer than 11 characters at
\* the token position, parses to null
C19_NullWithoutToken ==
    (selected.done
        /\ \/ url \in Tokenless
           \/ carried.shape \in AcceptedShapes /\ Len(carried.token) < TokenLen) =>
        selected.out = <<>>

\* ApifyYouTubeProxy parsed a string that carries no well-formed token
\* to a non-null result
C19_Witness ==
    /\ kind = "ApifyYouTubeProxy"
    /\ selected.done
    /\ NoWellFormedToken
    /\ selected.out # <<>>

\* C20: a parse result is 11 characters of [A-Za-z0-9_-], and a URL whose
\* token position holds another character or a token of another length is rejected
C20_OnlyWellFormedAccepted ==
    selected.done =>
        /\ selected.out # <<>> =>
            /\ Len(selected.out[1]) = 11
            /\ \A j \in 1..Len(selected.out[1]) : selected.out[1][j] \in IdChars
        /\ (carried.shape \in AcceptedShapes /\ carried.token \in MalformedTokens) =>
            selected.out = <<>>

\* C20: what YouTubeParser returns is 11 characters of [A-Za-z0-9_-], and
\* both parsers reject a token position holding fewer than 11 characters
C20_StaticResultInAlphabet ==
    selected.done =>
        /\ (kind = "YouTubeParser" /\ selected.out # <<>>) =>
            /\ Len(selected.out[1]) = 11
            /\ \A j \in 1..Len(selected.out[1]) : selected.out[1][j] \in IdChars
        /\ (carried.shape \in AcceptedShapes /\ Len(carried.token) < TokenLen) =>
            selected.out = <<>>

\* a URL whose token is too long or holds a character outside the alphabet
\* was parsed to a non-null result
C20_Witness ==
    /\ selected.done
    /\ carried.shape \in AcceptedShapes
    /\ \/ Len(carried.token) > TokenLen
       \/ \E j \in 1..Len(carried.token) : carried.token[j] \notin IdChars
    /\ selected.out # <<>>

----------------------------------------------------------------------------
\* Part V: single operations, each a function of what it is handed

\* YouTubeParser's strategies that fetch a page and parse it
PageMethods == {"embedded", "mobile", "tv_embedded", "web"}

\* const patterns = [...] of parsePlayerResponse, then the videoDetails fallback
patterns ==
    <<"var ytInitialPlayerResponse = ", "window[\"ytInitialPlayerResponse\"] = ",
      "\"ytInitialPlayerResponse\":...,\"ytInitialData\"", "ytInitialPlayerResponse\":",
      "\"ytInitialPlayerResponse\" :", "ytInitialPlayerResponse = ",
      "\"videoDetails\":">>

\* a fetched page: response.ok, whether the html includes 'captcha', 'robot'
\* or 'automated', what each pattern finds in it (nothing, a capture that
\* JSON.parse rejects, a capture that parses), and whether the parsed object
\* holds a format with a url
Pages ==
    {r \in [method : PageMethods, ok : BOOLEAN, bot : BOOLEAN,
            found : [1..Len(patterns) -> {"nomatch", "unparsable", "json"}],
            playable : BOOLEAN] :
        /\ (~r.ok) => (\A i \in 1..Len(patterns) : r.found[i] = "nomatch")
        /\ (r.playable) => (\E i \in 1..(Len(patterns) - 1) : r.found[i] = "json")
        \* whatever /var ytInitialPlayerResponse = ({.+?});/ captures,
        \* /ytInitialPlayerResponse\s*=\s*({.+?});/ captures too
        /\ r.found[6] = r.found[1] \/ r.found[1] = "nomatch"}

\* the loop that gives up at the first pattern that matches
RECURSIVE TryPatternsFirstMatch(_, _)
TryPatternsFirstMatch(r, i) ==
    IF i > Len(patterns) THEN 0
    ELSE IF r.found[i] = "json" THEN i
    ELSE IF r.found[i] = "unparsable" THEN 0
    ELSE TryPatternsFirstMatch(r, i + 1)

\* for (const pattern of patterns) { match; try JSON.parse, break; catch continue },
\* then the fallback: the index of the pattern used, 0 if none
RECURSIVE TryPatterns(_, _)
TryPatterns(r, i) ==
    IF i > Len(patterns) THEN 0
    ELSE IF r.found[i] = "json" THEN i
    ELSE TryPatterns(r, i + 1)

\* parsePlayerResponse(html, method), then parseStreamingData
parsePlayerResponse(r) ==
    LET via == TryPatterns(r, 1)
    IN IF via = 0
       THEN [done |-> TRUE, threw |-> "Could not extract player response from HTML",
             parsed |-> TRUE, via |-> 0, hasUrl |-> FALSE]
       ELSE [done |-> TRUE, threw |-> "none", parsed |-> TRUE, via |-> via,
             hasUrl |-> r.playable /\ via < Len(patterns)]

\* extractFromEmbedded / extractFromMobile / extractFromTvEmbedded /
\* extractFromWebPlayer, from the response on
extractFromPage(r) ==
    IF ~r.ok
    THEN [done |-> TRUE, threw |-> "HTTP", parsed |-> FALSE, via |-> 0, hasUrl |-> FALSE]
    ELSE IF r.method = "web" /\ r.bot
    THEN [done |-> TRUE, threw |-> "Bot detection encountered", parsed |-> FALSE,
          via |-> 0, hasUrl |-> FALSE]
    ELSE parsePlayerResponse(r)

\* what the loop of extractVideoInfo does with a strategy's outcome
LoopStep(out) ==
    IF out.threw # "none" THEN "caught"
    ELSE IF out.hasUrl THEN "return"
    ELSE "continue"

\* const result = await method()
FetchPage ==
    /\ kind = "page"
    /\ ~output.done
    /\ output' = extractFromPage(input)
    /\ UNCHANGED <<kind, formats, combined, selected, selectedBefore, url, carried, input, tmp>>
    /\ UNCHANGED <<chainVars, pipeVars>>

InitPage ==
    /\ kind = "page"
    /\ input \in Pages
    /\ output = Nothing

\* what can happen to the spawned yt-dlp process: the 'error' event, the
\* 'close' event with its code (null after a kill), the setTimeout callback
RunEvents == {"error", "close:0", "close:1", "close:null", "timeout"}

\* what each callback asks of the promise
Asks(e) ==
    CASE e = "error" -> "Failed to spawn yt-dlp"
      [] e = "close:0" -> "none"
      [] e \in {"close:1", "close:null"} -> "yt-dlp exited with code"
      [] e = "timeout" -> "yt-dlp process timed out"

\* a promise on which every resolve / reject takes effect
SettleLast(o, e) ==
    [done |-> TRUE, threw |-> Asks(e), events |-> Append(o.events, e)]

\* resolve / reject of the promise of runYtDlp: only the first call settles it
Settle(o, e) ==
    IF o.done THEN [o EXCEPT !.events = Append(o.events, e)]
    ELSE [done |-> TRUE, threw |-> Asks(e), events |-> Append(o.events, e)]

\* process.on('error'), process.on('close'), the setTimeout callback: each
\* fires at most once; the timer is never cleared
OnRunEvent(e) ==
    /\ kind = "run"
    /\ \A k \in 1..Len(output.events) : output.events[k] # e
    /\ e \in {"close:0", "close:1", "close:null"} =>
            \A k \in 1..Len(output.events) :
                output.events[k] \notin {"close:0", "close:1", "close:null"}
    /\ output' = Settle(output, e)
    /\ UNCHANGED <<kind, formats, combined, selected, selectedBefore, url, carried, input, tmp>>
    /\ UNCHANGED <<chainVars, pipeVars>>

\* const process = spawn('yt-dlp', args)
InitRun ==
    /\ kind = "run"
    /\ input = Nothing
    /\ output = [done |-> FALSE, threw |-> "none", events |-> <<>>]

MaxFailures == 3

\* Math.random(), in thousandths
RandomDraws == {0, 250, 500, 750, 999}

\* where the code waits: after a rotation (test.ts), after a caught failure
\* (YouTubeParser), before a retry (main.ts), before a proxied request (main.ts)
Waits ==
    [done : {TRUE}, site : {"rotate", "parser", "retry", "natural"},
     failures : 1..MaxFailures, random : RandomDraws,
     host : {"www.youtube.com", "example.com"}]

\* 2 ** (failures - 1)
RECURSIVE Doubled(_)
Doubled(n) == IF n <= 1 THEN 1 ELSE 2 * Doubled(n - 1)

\* the delays of the code, doubled with every failure
WaitExponential(w) ==
    Doubled(w.failures) * (1000 + (w.random * 2000) \div 1000)

\* the milliseconds handed to setTimeout
WaitOf(w) ==
    CASE w.site = "rotate" -> 1000 + (w.random * 2000) \div 1000
      [] w.site = "parser" -> 1000
      [] w.site = "retry" -> 2000 + (w.random * 3000) \div 1000
      [] w.site = "natural" ->
            LET baseDelay == IF w.host = "www.youtube.com" THEN 2000 ELSE 800
                jitter == ((w.random - 500) * baseDelay) \div 2000
                totalDelay == baseDelay + jitter
            IN IF totalDelay > 500 THEN totalDelay ELSE 500

\* await new Promise((resolve) => setTimeout(resolve, ...))
StartWait ==
    /\ kind = "delay"
    /\ ~output.done
    /\ output' = [done |-> TRUE, ms |-> WaitOf(input)]
    /\ UNCHANGED <<kind, formats, combined, selected, selectedBefore, url, carried, input, tmp>>
    /\ UNCHANGED <<chainVars, pipeVars>>

InitWait ==
    /\ kind = "delay"
    /\ input \in Waits
    /\ output = Nothing

\* the headers of an outbound request, by the platform each of them names:
\* extractFromWebPlayer's fetch, makeRequest without options.headers,
\* makeRequest from extractViaWatchPage (Referer only), from extractViaMobileAPI
HeadersOf(r) ==
    LET USER_AGENTS == <<"Windows", "Macintosh", "Linux">>
        BROWSER_PROFILES ==
            <<[userAgent |-> "Windows", acceptLanguage |-> "en-US,en;q=0.9"],
              [userAgent |-> "Macintosh", acceptLanguage |-> "en-US,en;q=0.9"],
              [userAgent |-> "Linux", acceptLanguage |-> "en-GB,en;q=0.9"]>>
        headers(ua, lang, hint) ==
            [done |-> TRUE, userAgent |-> ua, acceptLanguage |-> lang,
             secChUaPlatform |-> hint]
    IN CASE r.site = "extractFromWebPlayer" ->
                \* USER_AGENTS[Math.floor(Math.random() * length)], fixed hints
                headers(USER_AGENTS[r.pick], "en-US,en;q=0.9", "Windows")
         [] r.site = "makeRequest" ->
                headers(BROWSER_PROFILES[r.pick].userAgent,
                        BROWSER_PROFILES[r.pick].acceptLanguage, "none")
         \* ...options after headers: options.headers replaces the whole object
         [] r.site = "extractViaWatchPage" -> headers("none", "none", "none")
         [] r.site = "extractViaMobileAPI" -> headers("iPhone", "none", "none")

\* await fetch(url, { headers }) / await gotScraping(requestOptions)
SendRequest ==
    /\ kind = "request"
    /\ ~output.done
    /\ output' = HeadersOf(input)
    /\ UNCHANGED <<kind, formats, combined, selected, selectedBefore, url, carried, input, tmp>>
    /\ UNCHANGED <<chainVars, pipeVars>>

\* the random index into USER_AGENTS / this.currentProfile
InitRequest ==
    /\ kind = "request"
    /\ input \in [done : {TRUE}, pick : 1..NumProfiles,
                  site : {"extractFromWebPlayer", "makeRequest",
                          "extractViaWatchPage", "extractViaMobileAPI"}]
    /\ output = Nothing

\* ---- the entry point of the proxy: which handler answers a request ----

\* the value of the url parameter as it is written in the query string, in
\* pieces: a YouTube watch URL with an identifier, one without, another site,
\* each written plainly (as in the README) or through encodeURIComponent
WrittenTargets ==
    {<<"https", ":", "//", "youtube.com", "/watch?v=dQw4w9WgXcQ">>,
     <<"https", "%3A", "%2F%2F", "youtube.com", "%2Fwatch%3Fv%3DdQw4w9WgXcQ">>,
     <<"https", ":", "//", "youtube.com", "/playlist">>,
     <<"https", "%3A", "%2F%2F", "youtube.com", "%2Fplaylist">>,
     <<"http", ":", "//", "example.com", "/">>,
     <<"http", "%3A", "%2F%2F", "example.com", "%2F">>,
     <<"invalid-url">>,
     <<"youtube.com", "/watch?v=dQw4w9WgXcQ">>}

\* the percent-decoding done by URLSearchParams.get
decodePiece(p) ==
    CASE p = "%3A" -> ":"
      [] p = "%2F%2F" -> "//"
      [] p = "%2F" -> "/"
      [] p = "%2Fplaylist" -> "/playlist"
      [] p = "%2Fwatch%3Fv%3DdQw4w9WgXcQ" -> "/watch?v=dQw4w9WgXcQ"
      [] OTHER -> p

searchParamsGet(written) == [k \in 1..Len(written) |-> decodePiece(written[k])]

\* String.prototype.includes over the pieces
IncludesPieces(text, part) ==
    \E k \in 0..(Len(text) - Len(part)) :
        \A j \in 1..Len(part) : text[k + j] = part[j]

\* url.pathname + url.search of the request
PathOf(r) ==
    <<"/">> \o (IF r.target = <<>> THEN <<>> ELSE <<"?url=">> \o r.target)
            \o (IF r.extractVideo THEN <<"&extract_video=true">> ELSE <<>>)

isDirectProxyRequest(r) ==
    \/ IncludesPieces(PathOf(r), <<"http", ":", "//">>)
    \/ IncludesPieces(PathOf(r), <<"https", ":", "//">>)
    \/ r.proxyHeader

\* the requests: method, url parameter (<<>> when absent), extract_video=true,
\* a Proxy-Authorization or Proxy-Connection header, and whether the upstream
\* work (extractVideoInfo, proxyRequest) throws
RouteRequests ==
    [done : {TRUE}, method : {"GET", "OPTIONS", "CONNECT"},
     target : WrittenTargets \cup {<<>>}, extractVideo : BOOLEAN,
     proxyHeader : BOOLEAN, upstreamThrows : BOOLEAN]

\* new URL(targetUrl) does not throw: the text starts with a scheme and '//'
IsWellFormed(targetUrl) ==
    /\ Len(targetUrl) >= 4
    /\ targetUrl[1] \in {"http", "https"}
    /\ targetUrl[2] = ":"
    /\ targetUrl[3] = "//"

\* a response, the handler that built it, and whether a request went upstream
Answered(handler, answer, fetched) ==
    [done |-> TRUE, handler |-> handler, answer |-> answer, fetched |-> fetched]

\* SophisticatedProxy.proxyRequest as the entry point sees it:
\* createAdvancedHeaders runs new URL(targetUrl).hostname before the fetch and
\* outside the try of proxyRequest
proxyRequestFrom(handler, targetUrl, upstreamThrows) ==
    IF ~IsWellFormed(targetUrl)
    THEN Answered(handler, IF handler = "handleDirectProxy" THEN "threw"
                           ELSE "500 Sophisticated proxy system error", FALSE)
    ELSE IF upstreamThrows
    THEN Answered(handler, "500 Sophisticated proxy request failed", TRUE)
    ELSE Answered(handler, "proxied", TRUE)

handleRestAPIMode(r) ==
    LET targetUrl == searchParamsGet(r.target)
        isYouTube == \/ IncludesPieces(targetUrl, <<"youtube.com">>)
                     \/ IncludesPieces(targetUrl, <<"youtu.be">>)
        videoId == IncludesPieces(targetUrl, <<"/watch?v=dQw4w9WgXcQ">>)
    IN IF r.target = <<>>
       THEN Answered("handleRestAPIMode", "400 Missing url parameter", FALSE)
       ELSE IF r.extractVideo /\ isYouTube
       THEN IF ~videoId
            THEN Answered("handleRestAPIMode", "400 Could not extract video ID from URL", FALSE)
            ELSE IF r.upstreamThrows
            THEN Answered("handleRestAPIMode", "500 Video extraction failed", TRUE)
            ELSE Answered("handleRestAPIMode", "200 videoId videoInfo", TRUE)
       ELSE proxyRequestFrom("handleRestAPIMode", targetUrl, r.upstreamThrows)

\* request.url split at '://': what follows the second '://' with 'http://'
\* put in front when it holds no '://' itself, or request.url as it is
handleDirectProxy(r) ==
    LET requestUrl == <<"https", ":", "//", "your-proxy.deno.dev">> \o PathOf(r)
        seps == {k \in 1..(Len(requestUrl) - 1) :
                    requestUrl[k] = ":" /\ requestUrl[k + 1] = "//"}
        second == CHOOSE k \in seps : Cardinality({j \in seps : j < k}) = 1
        rest == SubSeq(requestUrl, second + 2, Len(requestUrl))
        targetUrl == IF Cardinality(seps) > 1
                     THEN IF IncludesPieces(rest, <<":", "//">>) THEN rest
                          ELSE <<"http", ":", "//">> \o rest
                     ELSE requestUrl
    IN proxyRequestFrom("handleDirectProxy", targetUrl, r.upstreamThrows)

\* export default { async fetch(request) }
fetch(r) ==
    IF r.method = "OPTIONS" THEN Answered("preflight", "204", FALSE)
    ELSE IF r.method = "CONNECT"
    THEN Answered("handleConnectProxy", "200 Connection established", FALSE)
    ELSE IF isDirectProxyRequest(r) THEN handleDirectProxy(r)
    ELSE handleRestAPIMode(r)

Dispatch ==
    /\ kind = "route"
    /\ ~output.done
    /\ output' = fetch(input)
    /\ UNCHANGED <<kind, formats, combined, selected, selectedBefore, url, carried, input, tmp>>
    /\ UNCHANGED <<chainVars, pipeVars>>

InitRoute ==
    /\ kind = "route"
    /\ input \in RouteRequests
    /\ output = Nothing

\* ---- one resolution through yt-dlp, in the three copies of the resolver ----

Resolvers == {"test.ts", "part_002", "part_003"}

\* the call and what its environment does: the flag uploadToR2, whether
\* downloadAudioDirect gives a file, whether this.r2Client and the bucket name
\* are set, whether upload.done() resolves
Resolutions ==
    [done : {TRUE}, resolver : Resolvers, uploadToR2 : BOOLEAN, filePath : BOOLEAN,
     r2Client : BOOLEAN, r2Bucket : BOOLEAN, uploadOk : BOOLEAN]

\* the object extractViaYtDlp returns: audioFormat (singular), whisperReady,
\* r2Upload and ytDlpDirect, but neither audioFormats nor url
ytDlpResult == [audioFormats |-> 0, url |-> FALSE, r2Upload |-> TRUE, ytDlpDirect |-> TRUE]

\* extractViaYtDlp(videoId): "result" when the file was uploaded, or the error
extractViaYtDlp(r) ==
    IF ~r.filePath THEN "yt-dlp did not return a file path"
    ELSE IF r.resolver = "test.ts" /\ ~r.r2Bucket
    THEN "CLOUDFLARE_R2_BUCKET environment variable not set"
    ELSE IF r.resolver # "test.ts" /\ ~(r.r2Client /\ r.r2Bucket)
    THEN "R2 client or bucket is not configured"
    ELSE IF ~r.r2Client \/ ~r.uploadOk THEN "upload failed"
    ELSE "result"

\* the test on the result when uploadToR2 is false
UsableResult(resolver, res) ==
    \/ res.audioFormats > 0
    \/ res.url
    \/ resolver = "part_003" /\ res.r2Upload

\* extractYouTubeVideo / performExtractionWithCurrentProxy around extractViaYtDlp
performExtraction(r) ==
    LET via == extractViaYtDlp(r)
        stored == via = "result"
        returns == /\ stored
                   /\ IF r.uploadToR2
                      THEN ytDlpResult.ytDlpDirect /\ ytDlpResult.r2Upload
                      ELSE UsableResult(r.resolver, ytDlpResult)
    IN [done |-> TRUE,
        threw |-> IF returns THEN "none" ELSE "YouTube extraction failed",
        cause |-> IF ~stored THEN via
                  ELSE IF returns THEN "none"
                  ELSE "yt-dlp did not return usable result",
        stored |-> stored]

Resolve ==
    /\ kind = "resolve"
    /\ ~output.done
    /\ output' = performExtraction(input)
    /\ UNCHANGED <<kind, formats, combined, selected, selectedBefore, url, carried, input, tmp>>
    /\ UNCHANGED <<chainVars, pipeVars>>

InitResolve ==
    /\ kind = "resolve"
    /\ input \in Resolutions
    /\ output = Nothing

\* ---- SophisticatedProxy.proxyRequest: the retry loop and the labels ----

\* const maxAttempts = 3
MaxAttempts == 3

\* what one upstream fetch gives: a response status, or it throws
FetchOutcomes == {"200", "500", "429", "403", "throw"}

\* what the upstream would answer to the first, second and third fetch
ProxyRuns == [done : {TRUE}, upstream : [1..MaxAttempts -> FetchOutcomes]]

\* a check that also takes a server error for a block
BlockedOrServerError(o) == o \in {"429", "403", "500"}

\* if (response.status === 429 || response.status === 403)
Blocked(o) == o \in {"429", "403"}

\* while (attempt < maxAttempts) { attempt++; try { fetch; blocked: continue;
\* break } catch { if (attempt === maxAttempts) throw } }: the state the loop
\* is left in, from the state before an iteration
RECURSIVE RetryLoop(_, _)
RetryLoop(upstream, l) ==
    IF ~(l.attempt < MaxAttempts) THEN l
    ELSE LET attempt == l.attempt + 1
             o == upstream[attempt]
             fetched == [l EXCEPT !.attempt = attempt, !.fetches = l.fetches + 1]
         IN IF o = "throw"
            THEN IF attempt = MaxAttempts
                 THEN [fetched EXCEPT !.threw = TRUE]
                 ELSE RetryLoop(upstream, fetched)
            ELSE IF Blocked(o)
            THEN RetryLoop(upstream, [fetched EXCEPT !.response = o])
            ELSE [fetched EXCEPT !.response = o]

\* proxyRequest from its try block on: the response built after the loop, or
\* the 500 of the catch block
proxyRequest(r) ==
    LET l == RetryLoop(r.upstream,
                       [attempt |-> 0, fetches |-> 0, response |-> "none", threw |-> FALSE])
    IN IF l.threw
       THEN [done |-> TRUE, fetches |-> l.fetches, status |-> "500",
             proxyStatus |-> "error", hasRetryAttempts |-> FALSE, retryAttempts |-> 0]
       ELSE [done |-> TRUE, fetches |-> l.fetches, status |-> l.response,
             proxyStatus |-> "success", hasRetryAttempts |-> TRUE,
             retryAttempts |-> l.attempt]

SendProxied ==
    /\ kind = "proxy"
    /\ ~output.done
    /\ output' = proxyRequest(input)
    /\ UNCHANGED <<kind, formats, combined, selected, selectedBefore, url, carried, input, tmp>>
    /\ UNCHANGED <<chainVars, pipeVars>>

InitProxy ==
    /\ kind = "proxy"
    /\ input \in ProxyRuns
    /\ output = Nothing

InitOperations ==
    /\ NoInstance
    /\ formats = <<>>
    /\ combined = "none"
    /\ selected = Unselected
    /\ selectedBefore = Unselected
    /\ url = <<>>
    /\ carried = NoUrl
    /\ tmp = {}
    /\ (InitPage \/ InitRun \/ InitWait \/ InitRequest \/ InitRoute
        \/ InitResolve \/ InitProxy)

NextOperations ==
    \/ FetchPage
    \/ SendRequest
    \/ StartWait
    \/ Dispatch
    \/ Resolve
    \/ SendProxied
    \/ \E e \in RunEvents : OnRunEvent(e)

SpecOperations == InitOperations /\ [][NextOperations]_vars

\* C21: a response carrying a bot-detection signature is a failed attempt and
\* is not parsed further, whichever strategy fetched it
C21_BotPageNeverParsed ==
    (kind = "page" /\ output.done /\ input.ok /\ input.bot) =>
        (output.threw # "none" /\ ~output.parsed)

\* C21: the web-player strategy fails on a bot-detection page without parsing it
C21_WebPlayerStopsAtBotPage ==
    (kind = "page" /\ output.done /\ input.ok /\ input.bot /\ input.method = "web") =>
        (output.threw = "Bot detection encountered" /\ ~output.parsed)

\* the embedded strategy returned a stream parsed from a bot-detection page
C21_Witness ==
    /\ kind = "page"
    /\ output.done
    /\ input.method = "embedded"
    /\ input.bot
    /\ output.parsed
    /\ LoopStep(output) = "return"

\* an adaptive audio format whose signatureCipher cannot be resolved
Undecodable(f) ==
    /\ f.mimeType \in {"audio/mp4", "audio/webm"}
    /\ f.access \in {"badcipher", "malformed"}

\* C22: cipher resolution yields a URL or null and never an exception, and a
\* variant whose cipher resolves to null is passed over: the selection goes on
\* to the next candidates and never returns the unresolved variant
C22_UnresolvedCipherSkipped ==
    (kind = "watch" /\ selected.done) =>
        /\ \A k \in 1..Len(formats) :
                decodeSignatureCipher(formats[k].access) \in {"decoded", "null"}
        /\ selected.out # <<>> => selected.out[1].url \in {"direct", "decoded"}
        /\ \A k \in 1..Len(formats) :
            (Undecodable(formats[k])
                /\ \E j \in (k + 1)..Len(formats) : UsableAudioOnly(formats[j])) =>
                    /\ selected.out # <<>>
                    /\ ~selected.out[1].combined
        /\ ((\E k \in 1..Len(formats) : Undecodable(formats[k]))
                /\ (\A k \in 1..Len(formats) : ~UsableAudioOnly(formats[k]))
                /\ combined = "url") =>
                    (selected.out # <<>> /\ selected.out[1].combined)

\* the AAC variant's cipher was not valid percent-encoding and the audio
\* variant after it was returned
C22_Witness ==
    /\ kind = "watch"
    /\ selected.done
    /\ Len(formats) >= 2
    /\ formats[1].itag = 140
    /\ formats[1].mimeType = "audio/mp4"
    /\ formats[1].access = "malformed"
    /\ selected.out # <<>>
    /\ selected.out[1].itag = formats[2].itag
    /\ selected.out[1].mimeType = formats[2].mimeType
    /\ formats[2] # formats[1]
    /\ ~selected.out[1].combined

\* C24: the run is a success only if the first thing to happen was the close
\* with exit code 0; a non-zero exit, a spawn error or the timeout coming
\* first makes it a failure, and nothing that happens later changes the outcome
C24_FirstEventDecides ==
    (kind = "run" /\ output.events # <<>>) =>
        /\ output.done
        /\ output.threw = "none" <=> output.events[1] = "close:0"
        /\ output.events[1] = "error" => output.threw = "Failed to spawn yt-dlp"
        /\ output.events[1] \in {"close:1", "close:null"} =>
                output.threw = "yt-dlp exited with code"
        /\ output.events[1] = "timeout" => output.threw = "yt-dlp process timed out"

\* the process closed with code 0 and the timer, never cleared, fired later;
\* or the timeout fired and the killed process closed afterwards
C24_Witness ==
    /\ kind = "run"
    /\ \/ output.events = <<"close:0", "timeout">> /\ output.threw = "none"
       \/ output.events = <<"timeout", "close:null">>
            /\ output.threw = "yt-dlp process timed out"

----------------------------------------------------------------------------
\* Part VI: pipeline instances running at the same time on one machine

Instances == {1, 2}

VideoIds == {"dQw4w9WgXcQ", "9bZkp7q19f0"}

\* `audio_${videoId}.${ext}`
TmpName(v, e) == [videoId |-> v, ext |-> e]

\* files.find((f) => f.startsWith(`audio_${videoId}.`)) over readdir('/tmp')
Prefixed(v) == {f \in tmp : f.name.videoId = v}

\* instance i moves to pc p, with file path and the foreign files it touched
Moved(i, p, path, how) ==
    [output EXCEPT ![i] = [pc |-> p, filePath |-> path,
                           foreign |-> output[i].foreign \cup how]]

\* runYtDlp(args) with --output /tmp/audio_<videoId>.<ext>: yt-dlp writes the file
YtDlpWrites(i, e) ==
    LET name == TmpName(input[i], e)
        there == {f \in tmp : f.name = name}
    IN /\ kind = "instances"
       /\ output[i].pc = "start"
       /\ tmp' = (tmp \ there) \cup {[name |-> name, writer |-> i]}
       /\ output' = Moved(i, "written", output[i].filePath,
                          IF \E f \in there : f.writer # i THEN {"overwritten"} ELSE {})
       /\ UNCHANGED <<kind, formats, combined, selected, selectedBefore, url, carried, input>>
       /\ UNCHANGED <<chainVars, pipeVars>>

\* readdir('/tmp') and files.find: any file with the prefix, in directory
\* order, or 'yt-dlp did not create expected output file'
FindsFile(i) ==
    /\ kind = "instances"
    /\ output[i].pc = "written"
    /\ IF Prefixed(input[i]) = {}
       THEN output' = Moved(i, "failed", output[i].filePath, {})
       ELSE \E f \in Prefixed(input[i]) : output' = Moved(i, "found", f.name, {})
    /\ UNCHANGED <<kind, formats, combined, selected, selectedBefore, url, carried, input, tmp>>
    /\ UNCHANGED <<chainVars, pipeVars>>

\* const fileBuffer = await fs.promises.readFile(result.filePath)
ReadsFile(i) ==
    LET there == {f \in tmp : f.name = output[i].filePath}
    IN /\ kind = "instances"
       /\ output[i].pc = "found"
       /\ IF there = {}
          THEN output' = Moved(i, "failed", output[i].filePath, {})
          ELSE output' = Moved(i, "read", output[i].filePath,
                               IF \E f \in there : f.writer # i THEN {"read"} ELSE {})
       /\ UNCHANGED <<kind, formats, combined, selected, selectedBefore, url, carried, input, tmp>>
       /\ UNCHANGED <<chainVars, pipeVars>>

\* await upload.done(), then await fs.promises.unlink(result.filePath) in its
\* own try / catch; a failed upload throws before the unlink
UploadsAndUnlinks(i, ok) ==
    LET there == {f \in tmp : f.name = output[i].filePath}
    IN /\ kind = "instances"
       /\ output[i].pc = "read"
       /\ IF ok
          THEN /\ tmp' = tmp \ there
               /\ output' = Moved(i, "done", output[i].filePath,
                                  IF \E f \in there : f.writer # i THEN {"deleted"} ELSE {})
          ELSE /\ tmp' = tmp
               /\ output' = Moved(i, "failed", output[i].filePath, {})
       /\ UNCHANGED <<kind, formats, combined, selected, selectedBefore, url, carried, input>>
       /\ UNCHANGED <<chainVars, pipeVars>>

InitInstances ==
    /\ NoInstance
    /\ formats = <<>>
    /\ combined = "none"
    /\ selected = Unselected
    /\ selectedBefore = Unselected
    /\ url = <<>>
    /\ carried = NoUrl
    /\ kind = "instances"
    /\ input \in [Instances -> VideoIds]
    /\ output = [i \in Instances |->
                    [pc |-> "start", filePath |-> TmpName("none", "none"), foreign |-> {}]]
    /\ tmp = {}

NextInstances ==
    \E i \in Instances :
        \/ \E e \in DownloadExts : YtDlpWrites(i, e)
        \/ FindsFile(i)
        \/ ReadsFile(i)
        \/ \E ok \in BOOLEAN : UploadsAndUnlinks(i, ok)

SpecInstances == InitInstances /\ [][NextInstances]_vars

\* C25: no instance reads, overwrites or deletes a temporary download file
\* that belongs to another instance's resolution
C25_NoForeignTempFile ==
    kind = "instances" => \A i \in Instances : output[i].foreign = {}

\* C25: instances resolving different identifiers touch only their own files
C25_DistinctIdentifiersDisjoint ==
    (kind = "instances" /\ \A i, j \in Instances : i # j => input[i] # input[j]) =>
        \A i \in Instances : output[i].foreign = {}

\* two instances resolved the same identifier at the same time and one of
\* them uploaded the file the other one had written
C25_Witness ==
    /\ kind = "instances"
    /\ input[1] = input[2]
    /\ output[1].pc = "done"
    /\ "read" \in output[1].foreign
    /\ output[2].pc \in {"written", "found", "failed"}

C28_PlatformHintMatchesUserAgent ==
    (kind = "request" /\ output.done /\ output.secChUaPlatform # "none") =>
        output.secChUaPlatform = output.userAgent

\* C28: makeRequest called without headers of its own sends the user-agent
\* and accept-language of the current profile and no platform hint
C28_ProfileHeadersTogether ==
    (kind = "request" /\ output.done /\ input.site = "makeRequest") =>
        /\ output.secChUaPlatform = "none"
        /\ output.userAgent = "Linux" <=> output.acceptLanguage = "en-GB,en;q=0.9"

\* the web-player fetch went out with a Macintosh user-agent and the
\* platform hint "Windows"
C28_Witness ==
    /\ kind = "request"
    /\ output.done
    /\ input.site = "extractFromWebPlayer"
    /\ output.userAgent = "Macintosh"
    /\ output.secChUaPlatform = "Windows"

\* C29: the video format selected never has a quality label above 720p
C29_NeverAbove720p ==
    (kind = "playerVideo" /\ selected.done /\ selected.out # <<>>) =>
        selected.out[1].qualityLabel \in {"720p", "480p", "360p", "240p", "144p"}

\* C29: when the list holds a playable mp4 video of 720p or below, the format
\* selected is the best of these
C29_BestUpTo720pWhenOffered ==
    (kind = "playerVideo" /\ selected.done) =>
        LET offered == {k \in 1..Len(formats) :
                            /\ formats[k].mimeType = "video/mp4"
                            /\ formats[k].access = "url"
                            /\ formats[k].qualityLabel \in {"720p", "360p"}}
        IN offered # {} =>
            /\ selected.out # <<>>
            /\ selected.out[1].mimeType = "video/mp4"
            /\ selected.out[1].qualityLabel =
                IF \E k \in offered : formats[k].qualityLabel = "720p"
                THEN "720p" ELSE "360p"

\* a 1080p format was selected from a list that also held a 720p video
C29_Witness ==
    /\ kind = "playerVideo"
    /\ selected.done
    /\ selected.out # <<>>
    /\ selected.out[1].qualityLabel = "1080p"
    /\ \E k \in 1..Len(formats) :
        formats[k].qualityLabel = "720p" /\ formats[k].mimeType = "video/webm"

\* C23: the parser uses the first pattern, in the order of the list, whose
\* capture parses as JSON, skipping the patterns that do not match and those
\* whose capture does not parse; when no pattern parses it throws 'Could not
\* extract player response from HTML', which the loop of extractVideoInfo
\* catches as a failure of the strategy
C23_FirstParsablePatternUsed ==
    (kind = "page" /\ output.done /\ output.parsed) =>
        LET parsable == {i \in 1..Len(patterns) : input.found[i] = "json"}
        IN /\ parsable # {} =>
                /\ output.threw = "none"
                /\ output.via \in parsable
                /\ \A i \in parsable : output.via <= i
           /\ parsable = {} =>
                /\ output.threw = "Could not extract player response from HTML"
                /\ output.via = 0
                /\ LoopStep(output) = "caught"

\* a pattern matched a capture that JSON.parse rejected, and a later pattern
\* was used
C23_Witness ==
    /\ kind = "page"
    /\ output.done
    /\ output.parsed
    /\ output.via > 1
    /\ \E i \in 1..(output.via - 1) : input.found[i] = "unparsable"

\* no pattern parsed and the strategy failed
C23_WitnessNone ==
    /\ kind = "page"
    /\ output.done
    /\ output.parsed
    /\ output.via = 0
    /\ \E i \in 1..Len(patterns) : input.found[i] = "unparsable"

\* the request of the README example: GET, a YouTube url written plainly,
\* extract_video=true, no proxy header
ReadmeRequest ==
    /\ kind = "route"
    /\ input.method = "GET"
    /\ input.target \in
        {<<"https", ":", "//", "youtube.com", "/watch?v=dQw4w9WgXcQ">>,
         <<"https", ":", "//", "youtube.com", "/playlist">>}
    /\ input.extractVideo
    /\ ~input.proxyHeader

VideoAnswers ==
    {"200 videoId videoInfo", "400 Could not extract video ID from URL",
     "500 Video extraction failed"}

\* C30: the request of the README example is answered by the video-extraction
\* path and never by the generic proxy path
C30_ReadmeRequestExtractsVideo ==
    (ReadmeRequest /\ output.done) =>
        /\ output.handler = "handleRestAPIMode"
        /\ output.answer \in VideoAnswers

\* C30: a GET with extract_video=true and a YouTube url is answered by the
\* video-extraction path exactly when its path holds no 'http://' or
\* 'https://' and it carries no proxy header; otherwise handleDirectProxy
\* answers it
C30_ExtractsVideoOnlyWhenEncoded ==
    (/\ kind = "route"
     /\ output.done
     /\ input.method = "GET"
     /\ input.extractVideo
     /\ Len(input.target) = 5
     /\ input.target[4] = "youtube.com") =>
        IF input.target[2] = "%3A" /\ ~input.proxyHeader
        THEN output.handler = "handleRestAPIMode" /\ output.answer \in VideoAnswers
        ELSE output.handler = "handleDirectProxy"

\* the README request was answered by the direct proxy handler
C30_Witness ==
    /\ ReadmeRequest
    /\ input.target[5] = "/watch?v=dQw4w9WgXcQ"
    /\ output.done
    /\ output.handler = "handleDirectProxy"
    /\ output.answer = "proxied"

\* a GET whose url parameter is present and is not a well-formed URL, sent
\* without proxy headers
MalformedUrlRequest ==
    /\ kind = "route"
    /\ input.method = "GET"
    /\ input.target # <<>>
    /\ ~IsWellFormed(searchParamsGet(input.target))
    /\ ~input.proxyHeader

\* C31: a request whose url parameter is not a well-formed URL is answered
\* with status 400 and error 'Invalid URL format', and no upstream request is
\* made for it
C31_MalformedUrlRejected ==
    (MalformedUrlRequest /\ output.done) =>
        /\ output.answer = "400 Invalid URL format"
        /\ ~output.fetched

\* C31: a malformed url parameter is never answered 'Invalid URL format'; in
\* proxy mode it is answered 500 'Sophisticated proxy system error' with no
\* upstream request, and with extract_video=true a text holding
\* 'youtube.com/watch?v=<id>' goes upstream through the video extraction
C31_MalformedUrlEndsInProxyError ==
    (MalformedUrlRequest /\ output.done) =>
        /\ output.handler = "handleRestAPIMode"
        /\ output.answer # "400 Invalid URL format"
        /\ IF input.extractVideo /\ input.target = <<"youtube.com", "/watch?v=dQw4w9WgXcQ">>
           THEN output.fetched /\ output.answer \in VideoAnswers
           ELSE ~output.fetched /\ output.answer = "500 Sophisticated proxy system error"

\* 'invalid-url' was answered with the proxy error
C31_Witness ==
    /\ MalformedUrlRequest
    /\ input.target = <<"invalid-url">>
    /\ output.done
    /\ output.answer = "500 Sophisticated proxy system error"

\* C32: with uploadToR2 = false, extractYouTubeVideo returns a result whenever
\* the yt-dlp download itself succeeded
C32_DownloadedMeansReturned ==
    (kind = "resolve" /\ output.done /\ ~input.uploadToR2 /\ input.filePath) =>
        output.threw = "none"

\* C32: with uploadToR2 = false a result is returned exactly when the resolver
\* is the one of part_003, the download gave a file, R2 is configured and the
\* upload succeeded; every other call ends in 'YouTube extraction failed'
C32_ReturnedOnlyAfterUploadInPart003 ==
    (kind = "resolve" /\ output.done /\ ~input.uploadToR2) =>
        (output.threw = "none" <=>
            /\ input.resolver = "part_003"
            /\ input.filePath
            /\ input.r2Client
            /\ input.r2Bucket
            /\ input.uploadOk)

\* testLocal: the download and the upload succeeded, the result was refused
C32_Witness ==
    /\ kind = "resolve"
    /\ output.done
    /\ input.resolver = "test.ts"
    /\ ~input.uploadToR2
    /\ input.filePath
    /\ output.stored
    /\ output.threw = "YouTube extraction failed"
    /\ output.cause = "yt-dlp did not return usable result"

\* C33: with uploadToR2 = false a resolution performs no write to the object
\* store
C33_NoWriteWithoutUpload ==
    [][(impl = "plan" /\ ~uploadToR2 /\ pc = "upload") => store' = store]_vars

\* C33: with uploadToR2 = false a resolution that returns a fresh result has
\* written its object to the store, and the store was configured
C33_ReturnedMeansStored ==
    (impl = "plan" /\ ~uploadToR2 /\ pc = "returned" /\ result = "r2") =>
        /\ r2Client
        /\ r2Bucket
        /\ objectKey \in KeysOf(store)

\* a call with uploadToR2 = false returned after writing an object the store
\* did not hold before
C33_Witness ==
    /\ impl = "plan"
    /\ ~uploadToR2
    /\ pc = "returned"
    /\ result = "r2"
    /\ ~hadArtifact
    /\ objectKey \in KeysOf(store)

\* a call with uploadToR2 = false on an instance without R2 credentials failed
\* after yt-dlp had written its file
C33_WitnessUnconfigured ==
    /\ impl = "plan"
    /\ ~uploadToR2
    /\ ~r2Client
    /\ pc = "threw"
    /\ error = "ExtractionFailed"
    /\ fileExt # "none"

\* C34: the file downloadAudioDirect returns is the one the yt-dlp run it just
\* executed has written, never a file an earlier attempt left in /tmp
C34_ReturnsFileJustWritten ==
    [][(impl = "plan" /\ pc = "ytdlp" /\ tmpFiles' # tmpFiles) =>
            fileExt' \in tmpFiles' \ tmpFiles]_vars

\* C34: the file returned is one of the /tmp/audio_<id>.* files present after
\* the run, and it is the file just written when /tmp held none before
C34_ReturnsSomePrefixedFile ==
    [][(impl = "plan" /\ pc = "ytdlp" /\ pc' = "upload") =>
            /\ fileExt' \in tmpFiles'
            /\ tmpFiles = {} => tmpFiles' = {fileExt'}]_vars

\* an upload failed, its file stayed in /tmp, and the next attempt found two
\* files with the prefix
C34_Witness ==
    /\ impl = "plan"
    /\ pc = "upload"
    /\ uploadFailed
    /\ fileExt \in tmpFiles
    /\ Cardinality(tmpFiles) = 2

\* the positions of a call of extractYouTubeVideo inside and after the loop
\* over the proxy plan
InPlanLoop == impl = "plan" /\ pc \in {"useGroup", "ytdlp", "upload", "unlink",
                                       "returned", "threw"}

\* C35: under a two-group plan the second group is tried only after the first
\* group's proxy setup or extraction has failed, each group gets at most one
\* extraction attempt, and when both fail the error raised comes from the
\* last group tried
C35_SecondGroupOnlyAfterFailure ==
    /\ [][(InPlanLoop /\ Len(getProxyPlan) = 2 /\ index = 1 /\ index' = 2) =>
            /\ pc \in {"useGroup", "ytdlp", "upload"}
            /\ pc' = "useGroup"
            /\ store' = store
            /\ result' = result
            /\ calls' = calls]_vars
    /\ [][(InPlanLoop /\ calls' = calls /\ pc' # "initProxy") => index' >= index]_vars
    /\ []((InPlanLoop /\ Len(getProxyPlan) = 2) =>
            /\ index <= 2
            /\ downloads <= (IF pc = "useGroup" THEN index - 1 ELSE index)
            /\ (pc = "threw" /\ error \in {"ProxyConfigFailed", "ExtractionFailed"})
                    => index = 2)

\* both groups were tried, each extraction failed, the call threw
C35_Witness ==
    /\ InPlanLoop
    /\ Len(getProxyPlan) = 2
    /\ pc = "threw"
    /\ error = "ExtractionFailed"
    /\ index = 2
    /\ downloads = 2

\* the single group of an -only strategy
OnlyGroup ==
    IF proxyStrategy = "datacenter-only" THEN "DATACENTER" ELSE "RESIDENTIAL"

SingleGroupStrategy == impl = "plan" /\ proxyStrategy \in {"datacenter-only", "residential-only"}

\* C36: with strategy 'datacenter-only' or 'residential-only' the proxy group
\* in use is never the other group, and exactly one extraction attempt is made
C36_ExactlyOneAttempt ==
    (/\ SingleGroupStrategy
     /\ pc \in {"returned", "threw"}
     /\ error # "InvalidYouTubeURL"
     /\ result # "cached") =>
        /\ currentProxyGroup \in {"none", OnlyGroup}
        /\ downloads = 1

\* C36: with strategy 'datacenter-only' or 'residential-only' the proxy group
\* in use is never the other group during initialisation or extraction, and
\* a call makes at most one extraction attempt: exactly one unless the url was
\* invalid, a stored object answered, or the proxy group could not be set up
C36_SingleGroupAtMostOneAttempt ==
    SingleGroupStrategy =>
        /\ currentProxyGroup \in {"none", OnlyGroup}
        /\ pc \in {"initProxy", "useGroup", "ytdlp", "upload", "unlink"} => index = 1
        /\ pc \in {"useGroup", "ytdlp", "upload", "unlink", "returned", "threw"} =>
                downloads <= 1
        /\ pc \in {"returned", "threw"} =>
                (downloads = 0 <=> \/ error \in {"InvalidYouTubeURL", "ProxyConfigFailed"}
                                   \/ result = "cached")

\* a single-group call ended without an extraction attempt because the proxy
\* group could not be set up
C36_Witness ==
    /\ SingleGroupStrategy
    /\ pc = "threw"
    /\ error = "ProxyConfigFailed"
    /\ downloads = 0
    /\ currentProxyGroup = OnlyGroup

\* a single-group call ended after its one extraction attempt
C36_WitnessOne ==
    /\ SingleGroupStrategy
    /\ pc = "returned"
    /\ result = "r2"
    /\ downloads = 1

\* the loop is at its oEmbed entry
AtOEmbed ==
    /\ impl \in Impls
    /\ index \in 1..NumMethods
    /\ extractionMethods[index] = "oembed"

\* C37: the oEmbed strategy never ends a resolution successfully; in test.ts
\* and YouTubeParser a resolution that reaches it can only end in the
\* exhaustion error
C37_OEmbedNeverSucceeds ==
    /\ []((impl \in Impls /\ pc \in {"returned", "download", "upload"}) =>
            /\ index \in 1..NumMethods
            /\ extractionMethods[index] # "oembed")
    /\ [][(AtOEmbed /\ impl \in {"apify", "parser"}
                    /\ pc \in {"awaitMethod", "rotate", "delay"}) =>
            \/ pc' \in {"awaitMethod", "rotate", "delay"} /\ index' = index
            \/ pc' = "threw" /\ error' = "AllExtractionMethodsFailed"]_vars

\* oEmbed returned its title-only object and the resolution ended exhausted
C37_Witness ==
    /\ impl \in {"apify", "parser"}
    /\ pc = "threw"
    /\ error = "AllExtractionMethodsFailed"
    /\ outcome = "none"
    /\ invoked # <<>>
    /\ extractionMethods[invoked[Len(invoked)]] = "oembed"

\* the fetches that end the retrying: a response that is not a block
Unblocked == {k \in 1..MaxAttempts : input.upstream[k] \notin {"429", "403", "throw"}}

C39_SuccessMeansNotBlocked ==
    (kind = "proxy" /\ output.done /\ output.proxyStatus = "success") =>
        output.status \notin {"429", "403"}

\* C39: a response is labelled success exactly when the last fetch made was
\* answered, whatever its status; it is labelled error only when the third
\* fetch threw
C39_SuccessMeansAnswered ==
    (kind = "proxy" /\ output.done) =>
        /\ output.proxyStatus = "success" <=> input.upstream[output.fetches] # "throw"
        /\ output.proxyStatus = "success" => output.status = input.upstream[output.fetches]
        /\ output.proxyStatus = "error" <=>
                (output.fetches = 3 /\ input.upstream[3] = "throw")

\* three fetches were blocked and the last 429 went out labelled success
C39_Witness ==
    /\ kind = "proxy"
    /\ output.done
    /\ \A k \in 1..3 : input.upstream[k] \in {"429", "403"}
    /\ output.fetches = 3
    /\ output.status = "429"
    /\ output.proxyStatus = "success"

====
